---- MODULE Spec2Model ----
(***************************************************************************)
(* A model of fuzzywuzzy-rs: the matching-block engine of primitives.rs,   *)
(* the ratio primitives built on it, the legacy string-based engine of     *)
(* utils.rs / fuzz.rs, and the fuzzywuzzy_compatible scorers.              *)
(*                                                                         *)
(* A string is a sequence of Unicode code points (integers).  Indices into *)
(* a sequence are 0-based, as in the source; Slice(s, lo, hi) is the Rust  *)
(* slice s[lo..hi].  A function that can panic returns a record whose      *)
(* field `panic` tells whether it did.                                     *)
(***************************************************************************)
EXTENDS Integers, Sequences, FiniteSets, TLC

VARIABLES
    a, b,              \* the two arguments of the call
    pc,                \* "start", "gmb_loop" (inside get_matching_blocks), "done"
    op,                \* the function called
    build,             \* the build that runs it
    flags,             \* <<force_ascii, full_process>> of the call
    queue,             \* get_matching_blocks: the ranges still to search
    matching_blocks,   \* get_matching_blocks: the blocks found so far
    call,              \* the last find_longest_match call: <<low1, high1, low2, high2>>
    streak,            \* and what it returned
    blocks,            \* the list get_matching_blocks returned
    score,             \* the score a scorer returned
    panicked,          \* the call ended in a panic
    input,             \* Score::new, extract: the other arguments of the call
    output             \* and what it returned

vars == <<a, b, pc, op, build, flags, queue, matching_blocks, call, streak,
          blocks, score, panicked, input, output>>

(***************************************************************************)
(* Bounds of the model.                                                    *)
(***************************************************************************)
\* the longest input sequence
MaxLen == 4

\* the longest runs of the inputs x^run and x^run y^tail
MaxRun == 21

MaxTail == 38

\* the longest short text given to wratio, and its longest run of one letter
MaxWord == 2

MaxRepeat == 9

\* the most choices given to extract
MaxChoices == 3

\* 'a' (one byte in UTF-8) and U+00E9 (two bytes in UTF-8)
Chars == {97, 233}

\* and 'b' with them
Alphabet == {97, 98, 233}

\* a debug build checks debug_assert! and arithmetic overflow; a release
\* build does neither and lets usize arithmetic wrap
Builds == {"debug", "release"}

\* the sequences of n characters of `alphabet`
RECURSIVE SeqsOfLen(_, _)
SeqsOfLen(alphabet, n) ==
    IF n = 0 THEN {<<>>}
    ELSE {Append(s, c) : s \in SeqsOfLen(alphabet, n - 1), c \in alphabet}

Inputs(alphabet, max) == UNION {SeqsOfLen(alphabet, n) : n \in 0..max}

\* n times the character c
Repeat(c, n) == [k \in 1..n |-> c]

(***************************************************************************)
(* Helpers standing for the Rust standard library.                         *)
(***************************************************************************)
\* &s[lo..hi] on a slice whose bounds are known to be in range
Slice(s, lo, hi) == SubSeq(s, lo + 1, hi)

\* the first number of a non-empty range of numbers a loop runs through
FirstOf(S) == CHOOSE m \in S : \A n \in S : m <= n

Min(x, y) == IF x <= y THEN x ELSE y

\* Ord for (usize, usize, usize): lexicographic
TupleLess(x, y) ==
    \/ x[1] < y[1]
    \/ x[1] = y[1] /\ x[2] < y[2]
    \/ x[1] = y[1] /\ x[2] = y[2] /\ x[3] < y[3]

RECURSIVE SumSizes(_)
SumSizes(bs) == IF bs = <<>> THEN 0 ELSE Head(bs)[3] + SumSizes(Tail(bs))

(***************************************************************************)
(* primitives.rs: find_longest_match                                       *)
(***************************************************************************)
MatchingStreak(i, j, k) == [panic |-> FALSE, idx1 |-> i, idx2 |-> j, size |-> k]

PanicStreak == [panic |-> TRUE, idx1 |-> 0, idx2 |-> 0, size |-> 0]

\* the five debug_assert!s at the head of find_longest_match
flm_asserts(shorter, longer, low1, high1, low2, high2) ==
    /\ low1 <= high1
    /\ low2 <= high2
    /\ high1 <= Len(shorter)
    /\ high2 <= Len(longer)
    /\ high1 - low1 <= high2 - low2

\* The three nested loops:
\*     for size in (1..len + 1).rev()
\*         for start in 0..len - size + 1
\*             for window_start in 0..((high2 - low2) - size + 1)
\* flm_windows is the set of the window_starts at which the innermost loop
\* finds `window == shortsub` for one start, flm_starts the set of the starts
\* for which it finds one; the loops return at the first of each.
flm_window_matches(shorter, longer, low1, low2, size, start, window_start) ==
    Slice(longer, low2 + window_start, low2 + window_start + size)
        = Slice(shorter, low1 + start, low1 + start + size)

flm_windows(shorter, longer, low1, low2, high2, size, start) ==
    {window_start \in 0..((high2 - low2) - size) :
        flm_window_matches(shorter, longer, low1, low2, size, start, window_start)}

flm_starts(shorter, longer, low1, high1, low2, high2, size) ==
    {start \in 0..((high1 - low1) - size) :
        flm_windows(shorter, longer, low1, low2, high2, size, start) # {}}

\* the return inside the loops, for the first start that has a window
flm_found(shorter, longer, low1, low2, high2, size, start) ==
    MatchingStreak(low1 + start,
                   low2 + FirstOf(flm_windows(shorter, longer, low1, low2, high2, size, start)),
                   size)

\* (high2 - low2) - size + 1 is usize arithmetic.  When size exceeds the
\* window of `longer`, a debug build panics on the subtraction; a release
\* build wraps: to 0 when the difference is -1 (no window is tried), and to
\* a number near 2^64 when it is smaller, so that the first window,
\* &longsub[0..size], is out of range and the slice panics.
RECURSIVE flm_loops(_, _, _, _, _, _, _, _)
flm_size(shorter, longer, low1, high1, low2, high2, size, starts, bld) ==
    IF starts = {}
    THEN flm_loops(shorter, longer, low1, high1, low2, high2, size - 1, bld)
    ELSE flm_found(shorter, longer, low1, low2, high2, size, FirstOf(starts))

flm_loops(shorter, longer, low1, high1, low2, high2, size, bld) ==
    IF size < 1
    THEN MatchingStreak(low1, low2, 0)
    ELSE IF (high2 - low2) - size < 0 /\ bld = "debug"
    THEN PanicStreak
    ELSE IF (high2 - low2) - size < -1
    THEN PanicStreak
    ELSE flm_size(shorter, longer, low1, high1, low2, high2, size,
                  flm_starts(shorter, longer, low1, high1, low2, high2, size), bld)

\* find_longest_match with the sizes starting one short: (1..len).rev()
find_longest_match_one_short(shorter, longer, low1, high1, low2, high2, bld) ==
    IF bld = "debug" /\ ~flm_asserts(shorter, longer, low1, high1, low2, high2)
    THEN PanicStreak
    ELSE flm_loops(shorter, longer, low1, high1, low2, high2, high1 - low1 - 1, bld)

\* The windows are taken inside the sequences (0 <= low <= high <= len), as
\* every caller takes them.
find_longest_match(shorter, longer, low1, high1, low2, high2, bld) ==
    IF bld = "debug" /\ ~flm_asserts(shorter, longer, low1, high1, low2, high2)
    THEN PanicStreak
    ELSE flm_loops(shorter, longer, low1, high1, low2, high2, high1 - low1, bld)

(***************************************************************************)
(* primitives.rs: get_matching_blocks                                      *)
(***************************************************************************)
\* let (shorter, len1, longer, len2) = ...; flipped
gmb_flipped(x, y) == ~(Len(x) <= Len(y))

gmb_shorter(x, y) == IF Len(x) <= Len(y) THEN x ELSE y

gmb_longer(x, y) == IF Len(x) <= Len(y) THEN y ELSE x

\* let mut queue = vec![(0, len1, 0, len2)]
gmb_initial_queue(shorter, longer) == << <<0, Len(shorter), 0, Len(longer)>> >>

\* the two pushes after a match (i, j, k) found in (low1, high1, low2, high2)
gmb_push(q, low1, high1, low2, high2, i, j, k) ==
    LET q1 == IF low1 < i /\ low2 < j THEN Append(q, <<low1, i, low2, j>>) ELSE q
    IN  IF i + k < high1 /\ j + k < high2
        THEN Append(q1, <<i + k, high1, j + k, high2>>)
        ELSE q1

\* the body of the while loop once find_longest_match has returned m for the
\* popped range `top`: the two debug_assert!s, then `if k != 0 { .. }`
gmb_matched(shorter, longer, rest, top, mb, m, bld) ==
    IF m.panic \/ (bld = "debug" /\ ~(m.idx1 <= Len(shorter) /\ m.idx2 <= Len(longer)))
    THEN [panic |-> TRUE, queue |-> rest, matching_blocks |-> mb, streak |-> m]
    ELSE IF m.size # 0
    THEN [panic |-> FALSE,
          queue |-> gmb_push(rest, top[1], top[2], top[3], top[4],
                             m.idx1, m.idx2, m.size),
          matching_blocks |-> Append(mb, <<m.idx1, m.idx2, m.size>>),
          streak |-> m]
    ELSE [panic |-> FALSE, queue |-> rest, matching_blocks |-> mb, streak |-> m]

\* one iteration of `while let Some(..) = queue.pop()`: the last range is
\* popped, searched, and its two sub-ranges are pushed
gmb_iteration(shorter, longer, q, mb, bld) ==
    gmb_matched(shorter, longer, SubSeq(q, 1, Len(q) - 1), q[Len(q)], mb,
                find_longest_match(shorter, longer, q[Len(q)][1], q[Len(q)][2],
                                   q[Len(q)][3], q[Len(q)][4], bld),
                bld)

\* the loop run to its end; r is the outcome of the iteration just run
RECURSIVE gmb_loop(_, _, _, _, _)
gmb_continue(shorter, longer, r, bld) ==
    IF r.panic
    THEN [panic |-> TRUE, matching_blocks |-> r.matching_blocks]
    ELSE gmb_loop(shorter, longer, r.queue, r.matching_blocks, bld)

gmb_loop(shorter, longer, q, mb, bld) ==
    IF q = <<>>
    THEN [panic |-> FALSE, matching_blocks |-> mb]
    ELSE gmb_continue(shorter, longer, gmb_iteration(shorter, longer, q, mb, bld), bld)

\* "collapse adjacent blocks": the for loop over the sorted blocks, carrying
\* (i1, j1, k1) and the list built so far
RECURSIVE gmb_collapse(_, _, _, _, _)
\* the loop without the merge: every block is pushed as it is
gmb_collapse_unmerged(sorted, i1, j1, k1, non_adjacent) == sorted

gmb_collapse(sorted, i1, j1, k1, non_adjacent) ==
    IF sorted = <<>>
    THEN IF k1 # 0 THEN Append(non_adjacent, <<i1, j1, k1>>) ELSE non_adjacent
    ELSE IF i1 + k1 = Head(sorted)[1] /\ j1 + k1 = Head(sorted)[2]
    THEN gmb_collapse(Tail(sorted), i1, j1, k1 + Head(sorted)[3], non_adjacent)
    ELSE gmb_collapse(Tail(sorted), Head(sorted)[1], Head(sorted)[2], Head(sorted)[3],
                      IF k1 # 0 THEN Append(non_adjacent, <<i1, j1, k1>>)
                      ELSE non_adjacent)

\* the blocks left in (shorter, longer) order
gmb_unflip_skipped(bs, flipped) == bs

\* (i, j, k) -> if flipped { (j, i, k) } else { (i, j, k) }
gmb_unflip(bs, flipped) ==
    [n \in 1..Len(bs) |-> IF flipped THEN <<bs[n][2], bs[n][1], bs[n][3]>> ELSE bs[n]]

\* gmb_finish with the sentinel pushed after the blocks are flipped back
gmb_finish_sentinel_not_flipped(mb, len1, len2, flipped) ==
    Append(gmb_unflip(gmb_collapse(SortSeq(mb, TupleLess), 0, 0, 0, <<>>), flipped),
           <<len1, len2, 0>>)

\* gmb_finish without matching_blocks.sort_unstable()
gmb_finish_unsorted(mb, len1, len2, flipped) ==
    gmb_unflip(Append(gmb_collapse(mb, 0, 0, 0, <<>>), <<len1, len2, 0>>), flipped)

\* everything after the loop: sort, collapse, push the sentinel, unflip
gmb_finish(mb, len1, len2, flipped) ==
    gmb_unflip(Append(gmb_collapse(SortSeq(mb, TupleLess), 0, 0, 0, <<>>),
                      <<len1, len2, 0>>),
               flipped)

\* the list returned once the loop has ended with outcome r
gmb_result(r, len1, len2, flipped) ==
    IF r.panic
    THEN [panic |-> TRUE, blocks |-> <<>>]
    ELSE [panic |-> FALSE, blocks |-> gmb_finish(r.matching_blocks, len1, len2, flipped)]

\* get_matching_blocks without the swap that puts the shorter sequence first
get_matching_blocks_unordered(x, y, bld) ==
    gmb_result(gmb_loop(x, y, gmb_initial_queue(x, y), <<>>, bld), Len(x), Len(y), FALSE)

get_matching_blocks(x, y, bld) ==
    gmb_result(gmb_loop(gmb_shorter(x, y), gmb_longer(x, y),
                        gmb_initial_queue(gmb_shorter(x, y), gmb_longer(x, y)),
                        <<>>, bld),
               Len(gmb_shorter(x, y)), Len(gmb_longer(x, y)), gmb_flipped(x, y))

(***************************************************************************)
(* f32 arithmetic.  A finite non-negative f32 is [m, e], standing for      *)
(* m * 2^e; the result of every operation is rounded to 24 significant     *)
(* bits, ties to even, as IEEE 754 does.  Operands have m < 2^24 and       *)
(* products stay below 2^31.                                               *)
(***************************************************************************)
F32Bits == 24

\* the values m * 2^e; the operations below are functions, so that their
\* arguments are values
F32 == [m : Nat, e : Int]

\* `n as f32` for n < 2^24, and the literals 2.0 and 100.0: exact
f32_from(n) == [m |-> n, e |-> 0]

\* brings the quotient digits of r / q into m until m has 24 bits
f32_div_digits[m \in Nat, r \in Nat, e \in Int, q \in Nat] ==
    IF m >= 2 ^ (F32Bits - 1)
    THEN [m |-> m, r |-> r, e |-> e]
    ELSE IF 2 * r >= q
    THEN f32_div_digits[2 * m + 1, 2 * r - q, e - 1, q]
    ELSE f32_div_digits[2 * m, 2 * r, e - 1, q]

\* round to nearest, ties to even, given the guard bit and the sticky bit
f32_round_even[m \in Nat, e \in Int, guard \in BOOLEAN, sticky \in BOOLEAN] ==
    LET up == guard /\ (sticky \/ m % 2 = 1)
        m1 == IF up THEN m + 1 ELSE m
    IN  IF m1 = 2 ^ F32Bits
        THEN [m |-> 2 ^ (F32Bits - 1), e |-> e + 1]
        ELSE [m |-> m1, e |-> e]

\* x / y, the quotient of the mantissas being below 2^24
f32_div[x \in F32, y \in F32] ==
    IF x.m = 0
    THEN [m |-> 0, e |-> 0]
    ELSE LET d == f32_div_digits[x.m \div y.m, x.m % y.m, 0, y.m]
             guard == 2 * d.r >= y.m
             rest == IF guard THEN 2 * d.r - y.m ELSE 2 * d.r
             v == f32_round_even[d.m, d.e, guard, rest > 0]
         IN  [m |-> v.m, e |-> v.e + x.e - y.e]

\* the number of low bits to drop so that p fits in 24 bits
f32_excess_bits[p \in Nat, s \in Nat] ==
    IF p \div (2 ^ s) < 2 ^ F32Bits THEN s ELSE f32_excess_bits[p, s + 1]

\* x * y
f32_mul[x \in F32, y \in F32] ==
    LET p == x.m * y.m
        s == f32_excess_bits[p, 0]
        low == p % (2 ^ s)
        half == 2 ^ (s - 1)
    IN  IF s = 0
        THEN [m |-> p, e |-> x.e + y.e]
        ELSE f32_round_even[p \div (2 ^ s), x.e + y.e + s, low >= half, low % half > 0]

\* f32::round: to the nearest integer, halves away from zero
f32_round[x \in F32] ==
    IF x.e >= 0
    THEN x.m * (2 ^ x.e)
    ELSE IF 0 - x.e > 30
    THEN 0
    ELSE LET d == 2 ^ (0 - x.e)
         IN  IF (x.m % d) >= (d \div 2) THEN (x.m \div d) + 1 ELSE x.m \div d

\* `as u8` on a non-negative float: saturating
U8Max == 255

as_u8(n) == Min(n, U8Max)

(***************************************************************************)
(* primitives.rs: simple_ratio                                             *)
(***************************************************************************)
Score(n) == [panic |-> FALSE, score |-> n]

PanicScore == [panic |-> TRUE, score |-> 0]

\* (100.0 * (2.0 * matches as f32) / sumlength).round() as u8
simple_ratio_value[matches \in Nat, sumlength \in Nat] ==
    as_u8(f32_round[f32_div[f32_mul[f32_from(100), f32_mul[f32_from(2), f32_from(matches)]],
                            f32_from(sumlength)]])

\* the score once get_matching_blocks has ended with outcome r
simple_ratio_of(r, sumlength) ==
    IF r.panic
    THEN PanicScore
    \* sumlength.is_normal(): false for 0.0 only
    ELSE IF sumlength # 0
    THEN Score(simple_ratio_value[SumSizes(r.blocks), sumlength])
    ELSE Score(100)

simple_ratio(x, y, bld) ==
    simple_ratio_of(get_matching_blocks(x, y, bld), Len(x) + Len(y))

(***************************************************************************)
(* utils.rs (the string-based engine): &str is UTF-8, so a position in a   *)
(* string is either a character index or a byte offset.                    *)
(***************************************************************************)
\* char::len_utf8
len_utf8(c) == IF c < 128 THEN 1 ELSE IF c < 2048 THEN 2 ELSE IF c < 65536 THEN 3 ELSE 4

\* the byte offset of character n of s (of the end of s when n = Len(s))
RECURSIVE byte_offset(_, _)
byte_offset(s, n) == IF n = 0 THEN 0 ELSE byte_offset(s, n - 1) + len_utf8(s[n])

\* &s[from..to] with byte offsets: a panic unless from <= to <= s.len() and
\* both lie on character boundaries
byte_slice(s, from, to) ==
    LET boundaries == {byte_offset(s, n) : n \in 0..Len(s)}
        lo == CHOOSE n \in 0..Len(s) : byte_offset(s, n) = from
        hi == CHOOSE n \in 0..Len(s) : byte_offset(s, n) = to
    IN  IF from <= to /\ from \in boundaries /\ to \in boundaries
        THEN [panic |-> FALSE, val |-> Slice(s, lo, hi)]
        ELSE [panic |-> TRUE, val |-> <<>>]

\* slice_utf8(string, low, high).unwrap(): low and high are character
\* indices.  low_index is the byte offset of character `low`; high_index is
\* that of the character after `high - 1`, or, at the end of the string, the
\* offset of the last character plus ONE byte.  None (and so a panic in
\* unwrap) when an index is not found; a panic in the final byte slice when
\* high_index is inside a character.
slice_utf8(string, low, high) ==
    LET n == Len(string)
        low_found == low < n
        low_index == byte_offset(string, low)
        high_found ==
            IF low + 1 = high
            THEN low_found
            ELSE low_found /\ low + 1 <= high - 1 /\ high - 1 <= n - 1
        high_index ==
            IF high < n
            THEN byte_offset(string, high)
            ELSE byte_offset(string, high - 1) + 1
    IN  IF low_found /\ high_found
        THEN byte_slice(string, low_index, high_index)
        ELSE [panic |-> TRUE, val |-> <<>>]

\* longsub.match_indices(substr).first(): the BYTE offset in longsub of the
\* first occurrence of substr
match_indices(longsub, substr) ==
    {at \in 0..(Len(longsub) - Len(substr)) : Slice(longsub, at, at + Len(substr)) = substr}

first_match_found(longsub, at) == [found |-> TRUE, startb |-> byte_offset(longsub, at)]

first_match_among(longsub, matches) ==
    IF matches = {}
    THEN [found |-> FALSE, startb |-> 0]
    ELSE first_match_found(longsub, FirstOf(matches))

first_match_index(longsub, substr) ==
    first_match_among(longsub, match_indices(longsub, substr))

\* The two nested loops:
\*     for size in (1..slen + 1).rev()
\*         for start in 0..slen - size + 1
\* utils_flm_substr is the body once slice_utf8 has returned substr, and
\* utils_flm_matches the rest of it once match_indices has returned m.  The
\* inner loop ends at the first start whose body panics or returns:
\* utils_flm_stops is the set of these starts.
utils_flm_matches(low1, low2, size, start, m) ==
    \* (low1 + start, low2 + startb, matchstr.chars().count())
    MatchingStreak(low1 + start, low2 + m.startb, size)

utils_flm_substr(longsub, low1, low2, size, start, substr) ==
    IF substr.panic
    THEN PanicStreak
    ELSE utils_flm_matches(low1, low2, size, start,
                           first_match_index(longsub, substr.val))

utils_flm_stop(longsub, substr) ==
    substr.panic \/ first_match_index(longsub, substr.val).found

utils_flm_stops(shorter, longsub, low1, slen, size) ==
    {start \in 0..(slen - size) :
        utils_flm_stop(longsub, slice_utf8(shorter, low1 + start, low1 + start + size))}

RECURSIVE utils_flm_loops(_, _, _, _, _, _)
utils_flm_size(shorter, longsub, low1, low2, slen, size, stops) ==
    IF stops = {}
    THEN utils_flm_loops(shorter, longsub, low1, low2, slen, size - 1)
    ELSE utils_flm_substr(longsub, low1, low2, size, FirstOf(stops),
                          slice_utf8(shorter, low1 + FirstOf(stops),
                                     low1 + FirstOf(stops) + size))

utils_flm_loops(shorter, longsub, low1, low2, slen, size) ==
    IF size < 1
    THEN MatchingStreak(low1, low2, 0)
    ELSE utils_flm_size(shorter, longsub, low1, low2, slen, size,
                        utils_flm_stops(shorter, longsub, low1, slen, size))

\* find_longest_match once slice_utf8(longer, low2, high2) has returned longsub
utils_flm_longsub(shorter, longsub, low1, low2, slen) ==
    IF longsub.panic
    THEN PanicStreak
    ELSE utils_flm_loops(shorter, longsub.val, low1, low2, slen, slen)

utils_find_longest_match(shorter, longer, low1, high1, low2, high2) ==
    utils_flm_longsub(shorter, slice_utf8(longer, low2, high2), low1, low2, high1 - low1)

\* the body of the while loop once find_longest_match has returned m
utils_gmb_matched(rest, top, mb, m) ==
    IF m.panic
    THEN [panic |-> TRUE, queue |-> rest, matching_blocks |-> mb]
    ELSE IF m.size # 0
    THEN [panic |-> FALSE,
          queue |-> gmb_push(rest, top[1], top[2], top[3], top[4],
                             m.idx1, m.idx2, m.size),
          matching_blocks |-> Append(mb, <<m.idx1, m.idx2, m.size>>)]
    ELSE [panic |-> FALSE, queue |-> rest, matching_blocks |-> mb]

\* one iteration of the while loop of utils::get_matching_blocks
utils_gmb_iteration(shorter, longer, q, mb) ==
    utils_gmb_matched(SubSeq(q, 1, Len(q) - 1), q[Len(q)], mb,
                      utils_find_longest_match(shorter, longer, q[Len(q)][1],
                                               q[Len(q)][2], q[Len(q)][3], q[Len(q)][4]))

\* the loop run to its end; r is the outcome of the iteration just run
RECURSIVE utils_gmb_loop(_, _, _, _)
utils_gmb_continue(shorter, longer, r) ==
    IF r.panic
    THEN [panic |-> TRUE, matching_blocks |-> r.matching_blocks]
    ELSE utils_gmb_loop(shorter, longer, r.queue, r.matching_blocks)

utils_gmb_loop(shorter, longer, q, mb) ==
    IF q = <<>>
    THEN [panic |-> FALSE, matching_blocks |-> mb]
    ELSE utils_gmb_continue(shorter, longer, utils_gmb_iteration(shorter, longer, q, mb))

\* a.chars().count() is Len(a); what follows the loop is the code of
\* primitives::get_matching_blocks, with sort for sort_unstable
utils_get_matching_blocks(x, y) ==
    gmb_result(utils_gmb_loop(gmb_shorter(x, y), gmb_longer(x, y),
                              gmb_initial_queue(gmb_shorter(x, y), gmb_longer(x, y)),
                              <<>>),
               Len(gmb_shorter(x, y)), Len(gmb_longer(x, y)), gmb_flipped(x, y))

\* check_trivial!: Some(100) for equal arguments, Some(0) when exactly one
\* is empty, and otherwise the caller goes on
\* check_trivial! without either of its returns
check_trivial_never_returns(s1, s2) == [returns |-> FALSE, score |-> 0]

check_trivial(s1, s2) ==
    IF s1 = s2
    THEN [returns |-> TRUE, score |-> 100]
    ELSE IF (s1 = <<>>) # (s2 = <<>>)
    THEN [returns |-> TRUE, score |-> 0]
    ELSE [returns |-> FALSE, score |-> 0]

(***************************************************************************)
(* fuzz.rs (the string-based scorers)                                      *)
(***************************************************************************)
\* (100.0 * (2.0 * (matches as f32) / sumlength)).round() as u8
fuzz_ratio_value[matches \in Nat, sumlength \in Nat] ==
    as_u8(f32_round[f32_mul[f32_from(100),
                            f32_div[f32_mul[f32_from(2), f32_from(matches)],
                                    f32_from(sumlength)]]])

\* ratio after check_trivial!, once get_matching_blocks has ended with outcome r
fuzz_ratio_of(r, sumlength) ==
    IF r.panic
    THEN PanicScore
    ELSE IF sumlength > 0
    THEN Score(fuzz_ratio_value[SumSizes(r.blocks), sumlength])
    ELSE Score(100)

fuzz_ratio(x, y) ==
    IF check_trivial(x, y).returns
    THEN Score(check_trivial(x, y).score)
    ELSE fuzz_ratio_of(utils_get_matching_blocks(x, y), Len(x) + Len(y))

\* let long_start = if j > i { j - i } else { 0 }
\* a window that always starts at the head of longer
long_start_unshifted(i, j) == 0

long_start(i, j) == IF j > i THEN j - i ELSE 0

\* let long_end = min(long_start + shorter.len(), longer.len())
long_end(i, j, shorter, longer) == Min(long_start(i, j) + Len(shorter), Len(longer))

\* The for loop of partial_ratio over the blocks, from block n on; `max` is
\* the running maximum.  fuzz_partial_window is the body once
\* &longer[long_start..long_end] has been taken (character counts used as
\* byte offsets), and fuzz_partial_score the rest of it once ratio has
\* returned r.
RECURSIVE fuzz_partial_loop(_, _, _, _, _)
fuzz_partial_score(shorter, longer, bs, n, max, r) ==
    IF r.panic
    THEN PanicScore
    ELSE IF r.score > 99
    THEN Score(100)
    ELSE fuzz_partial_loop(shorter, longer, bs, n + 1,
                           IF r.score > max THEN r.score ELSE max)

fuzz_partial_window(shorter, longer, bs, n, max, long_substr) ==
    IF long_substr.panic
    THEN PanicScore
    ELSE fuzz_partial_score(shorter, longer, bs, n, max,
                            fuzz_ratio(shorter, long_substr.val))

fuzz_partial_loop(shorter, longer, bs, n, max) ==
    IF n > Len(bs)
    THEN Score(max)
    ELSE fuzz_partial_window(shorter, longer, bs, n, max,
                             byte_slice(longer, long_start(bs[n][1], bs[n][2]),
                                        long_end(bs[n][1], bs[n][2], shorter, longer)))

\* partial_ratio after check_trivial!, once get_matching_blocks has ended
\* with outcome r
fuzz_partial_blocks(shorter, longer, r) ==
    IF r.panic
    THEN PanicScore
    ELSE fuzz_partial_loop(shorter, longer, r.blocks, 1, 0)

fuzz_partial_ratio(s1, s2) ==
    IF check_trivial(s1, s2).returns
    THEN Score(check_trivial(s1, s2).score)
    ELSE fuzz_partial_blocks(gmb_shorter(s1, s2), gmb_longer(s1, s2),
                             utils_get_matching_blocks(gmb_shorter(s1, s2),
                                                       gmb_longer(s1, s2)))

(***************************************************************************)
(* normalization.rs.  The character classes are those of the code points   *)
(* below U+0100.                                                           *)
(***************************************************************************)
Space == 32

\* char::is_ascii
is_ascii(c) == c < 128

\* char::is_alphanumeric: Alphabetic, or a number of category Nd, Nl or No
is_alphanumeric(c) ==
    \/ c \in 48..57
    \/ c \in 65..90
    \/ c \in 97..122
    \/ c \in {170, 178, 179, 181, 185, 186, 188, 189, 190}
    \/ c \in 192..214
    \/ c \in 216..246
    \/ c \in 248..255

\* char::is_whitespace
is_whitespace(c) == c \in 9..13 \/ c \in {32, 133, 160}

\* char::to_lowercase
to_lowercase(c) ==
    IF c \in 65..90 \/ c \in 192..214 \/ c \in 216..222 THEN c + 32 ELSE c

\* s.split(pred): the pieces between the characters that satisfy pred (here
\* the set `separators`), the empty pieces included; `piece` is the piece
\* being read
RECURSIVE split(_, _, _)
split(s, separators, piece) ==
    IF s = <<>>
    THEN <<piece>>
    ELSE IF Head(s) \in separators
    THEN <<piece>> \o split(Tail(s), separators, <<>>)
    ELSE split(Tail(s), separators, Append(piece, Head(s)))

\* pieces.intersperse(sep).collect() and pieces.join(sep)
RECURSIVE join(_, _)
join(pieces, sep) ==
    IF pieces = <<>>
    THEN <<>>
    ELSE IF Len(pieces) = 1
    THEN pieces[1]
    ELSE pieces[1] \o sep \o join(Tail(pieces), sep)

\* s.split_whitespace(): the non-empty pieces between white space
split_whitespace(s) ==
    SelectSeq(split(s, {c \in 0..255 : is_whitespace(c)}, <<>>), LAMBDA t : t # <<>>)

\* Ord for str: lexicographic by bytes, which is by code points
RECURSIVE StrLess(_, _)
StrLess(s, t) ==
    IF t = <<>> THEN FALSE
    ELSE IF s = <<>> THEN TRUE
    ELSE IF Head(s) # Head(t) THEN Head(s) < Head(t)
    ELSE StrLess(Tail(s), Tail(t))

PassthroughNormalizer(s) == s

LowerCaseNormalizer(s) == [n \in 1..Len(s) |-> to_lowercase(s[n])]

AsciiOnlyNormalizer(s) == SelectSeq(s, is_ascii)

\* the normalizer with the empty pieces dropped, which leaves one space per
\* run of separators
SplittingAlphanumericNormalizer_runs(s) ==
    join(SelectSeq(split(s, {c \in 0..255 : ~(c = 95 \/ is_alphanumeric(c))}, <<>>),
                   LAMBDA piece : piece # <<>>),
         <<Space>>)

SplittingAlphanumericNormalizer(s) ==
    join(split(s, {c \in 0..255 : ~(c = 95 \/ is_alphanumeric(c))}, <<>>), <<Space>>)

\* equal tokens are indistinguishable, so the unstable sort has one result
WhitespaceSplitSortedTokenNormalizer(s) ==
    join(SortSeq(split_whitespace(s), StrLess), <<Space>>)

\* ComposedNormalizer: the normalizers named in `names`, applied in order
RECURSIVE ComposedNormalizer(_, _)
ComposedNormalizer(names, s) ==
    IF names = <<>>
    THEN s
    ELSE ComposedNormalizer(Tail(names),
            CASE Head(names) = "AsciiOnly" -> AsciiOnlyNormalizer(s)
              [] Head(names) = "SplittingAlphanumeric" -> SplittingAlphanumericNormalizer(s)
              [] Head(names) = "LowerCase" -> LowerCaseNormalizer(s)
              [] Head(names) = "WhitespaceSplitSortedToken" ->
                    WhitespaceSplitSortedTokenNormalizer(s)
              [] Head(names) = "Passthrough" -> PassthroughNormalizer(s))

\* segmentation.rs: CodePointSegmenter, s.chars().collect(); a string is
\* already the sequence of its code points
CodePointSegmenter(s) == s

(***************************************************************************)
(* fuzzywuzzy_compatible/fuzz.rs                                           *)
(***************************************************************************)
\* The for loop of partial_ratio_full over the blocks, from block n on; `max`
\* is the running maximum.  partial_score is the body once simple_ratio has
\* returned r: simple_ratio panics, or its value is no Score
\* (try_into().unwrap()), or it is compared with 99 and with max.
RECURSIVE partial_loop(_, _, _, _, _, _)
partial_score(shorter, longer, bs, n, max, r, bld) ==
    IF r.panic \/ r.score > 100
    THEN PanicScore
    ELSE IF r.score > 99
    THEN Score(100)
    ELSE partial_loop(shorter, longer, bs, n + 1,
                      IF r.score > max THEN r.score ELSE max, bld)

partial_loop(shorter, longer, bs, n, max, bld) ==
    IF n > Len(bs)
    THEN Score(max)
    ELSE partial_score(shorter, longer, bs, n, max,
                       simple_ratio(shorter,
                                    Slice(longer, long_start(bs[n][1], bs[n][2]),
                                          long_end(bs[n][1], bs[n][2], shorter, longer)),
                                    bld),
                       bld)

\* the loop over the blocks before the last one only
partial_blocks_without_sentinel(shorter, longer, r, bld) ==
    IF r.panic
    THEN PanicScore
    ELSE partial_loop(shorter, longer, SubSeq(r.blocks, 1, Len(r.blocks) - 1), 1, 0, bld)

\* partial_ratio_full once get_matching_blocks has ended with outcome r
partial_blocks(shorter, longer, r, bld) ==
    IF r.panic
    THEN PanicScore
    ELSE partial_loop(shorter, longer, r.blocks, 1, 0, bld)

\* partial_ratio_full with the sequences taken in the order given
partial_segmented_as_given(segmented_a, segmented_b, bld) ==
    partial_blocks(segmented_a, segmented_b,
                   get_matching_blocks(segmented_a, segmented_b, bld), bld)

\* partial_ratio_full from `let (shorter, longer) = ..` on
partial_segmented(segmented_a, segmented_b, bld) ==
    partial_blocks(gmb_shorter(segmented_a, segmented_b),
                   gmb_longer(segmented_a, segmented_b),
                   get_matching_blocks(gmb_shorter(segmented_a, segmented_b),
                                       gmb_longer(segmented_a, segmented_b), bld),
                   bld)

\* the normalizer is the list of the names of its parts; check_trivial! is
\* applied to the arguments as they are given
partial_ratio_full(x, y, normalizer, bld) ==
    IF check_trivial(x, y).returns
    THEN Score(check_trivial(x, y).score)
    ELSE partial_segmented(CodePointSegmenter(ComposedNormalizer(normalizer, x)),
                           CodePointSegmenter(ComposedNormalizer(normalizer, y)), bld)

partial_ratio(x, y, bld) == partial_ratio_full(x, y, <<"Passthrough">>, bld)

\* match (force_ascii, full_process)
token_sort_normalizer(force_ascii, full_process) ==
    IF ~full_process
    THEN <<"Passthrough">>
    ELSE IF force_ascii
    THEN <<"AsciiOnly", "SplittingAlphanumeric", "LowerCase", "WhitespaceSplitSortedToken">>
    ELSE <<"SplittingAlphanumeric", "LowerCase", "WhitespaceSplitSortedToken">>

partial_token_sort_ratio(x, y, force_ascii, full_process, bld) ==
    partial_ratio_full(x, y, token_sort_normalizer(force_ascii, full_process), bld)

(***************************************************************************)
(* crate::fuzz::{ratio, ratio_full}, which fuzzywuzzy_compatible imports:  *)
(* the whole-string ratio of the two inputs, normalized and segmented, by  *)
(* simple_ratio; and token_sort_ratio of fuzzywuzzy_compatible/fuzz.rs.    *)
(***************************************************************************)
ratio_full(x, y, normalizer, bld) ==
    simple_ratio(CodePointSegmenter(ComposedNormalizer(normalizer, x)),
                 CodePointSegmenter(ComposedNormalizer(normalizer, y)), bld)

ratio(x, y, bld) == ratio_full(x, y, <<"Passthrough">>, bld)

token_sort_ratio(x, y, force_ascii, full_process, bld) ==
    ratio_full(x, y, token_sort_normalizer(force_ascii, full_process), bld)

(***************************************************************************)
(* utils.rs and fuzz.rs (legacy): full_process and the token-sort ratios   *)
(***************************************************************************)
\* str::trim: without the white space at both ends
RECURSIVE trim_start(_)
trim_start(s) ==
    IF s # <<>> /\ is_whitespace(Head(s)) THEN trim_start(Tail(s)) ELSE s

RECURSIVE trim_end(_)
trim_end(s) ==
    IF s # <<>> /\ is_whitespace(s[Len(s)])
    THEN trim_end(SubSeq(s, 1, Len(s) - 1))
    ELSE s

trim(s) == trim_end(trim_start(s))

\* .map(|c| if c.is_alphanumeric() { c } else { ' ' })
utils_replace_non_alphanumeric(s) ==
    [n \in 1..Len(s) |-> IF is_alphanumeric(s[n]) THEN s[n] ELSE Space]

utils_full_process(s, force_ascii) ==
    trim(LowerCaseNormalizer(utils_replace_non_alphanumeric(
            IF force_ascii THEN SelectSeq(s, is_ascii) ELSE s)))

process_and_sort(s, force_ascii, full_process) ==
    join(SortSeq(split_whitespace(IF full_process
                                  THEN utils_full_process(s, force_ascii)
                                  ELSE s),
                 StrLess),
         <<Space>>)

fuzz_token_sort(s1, s2, partial, force_ascii, full_process) ==
    IF check_trivial(s1, s2).returns
    THEN Score(check_trivial(s1, s2).score)
    ELSE IF partial
    THEN fuzz_partial_ratio(process_and_sort(s1, force_ascii, full_process),
                            process_and_sort(s2, force_ascii, full_process))
    ELSE fuzz_ratio(process_and_sort(s1, force_ascii, full_process),
                    process_and_sort(s2, force_ascii, full_process))

fuzz_token_sort_ratio(s1, s2, force_ascii, full_process) ==
    fuzz_token_sort(s1, s2, FALSE, force_ascii, full_process)

fuzz_partial_token_sort_ratio(s1, s2, force_ascii, full_process) ==
    fuzz_token_sort(s1, s2, TRUE, force_ascii, full_process)

\* fuzzywuzzy_compatible/utils.rs: asciionly and full_process
asciionly(s) == SelectSeq(s, is_ascii)

replace_non_letters_non_numbers_with_whitespace(s) == SplittingAlphanumericNormalizer(s)

compat_full_process(s, force_ascii) ==
    trim(LowerCaseNormalizer(replace_non_letters_non_numbers_with_whitespace(
            IF force_ascii THEN asciionly(s) ELSE s)))

\* p.split_whitespace().collect::<HashSet<_>>()
token_hash_set(p) == {split_whitespace(p)[n] : n \in 1..Len(split_whitespace(p))}

\* a set of tokens collected into a Vec and sorted
RECURSIVE sorted_tokens(_)
sorted_tokens(tokens) ==
    IF tokens = {}
    THEN <<>>
    ELSE LET least == CHOOSE t \in tokens : \A u \in tokens \ {t} : StrLess(t, u)
         IN  <<least>> \o sorted_tokens(tokens \ {least})

\* combined_1to2 and combined_2to1
combined_always_spaced(intersect_str, diff_str) == intersect_str \o <<Space>> \o diff_str

combined(intersect_str, diff_str) ==
    IF diff_str # <<>>
    THEN intersect_str \o <<Space>> \o diff_str
    ELSE intersect_str

\* the three strings token_set compares
token_set_strings(t1, t2) ==
    [intersect_str |-> join(sorted_tokens(t1 \cap t2), <<Space>>),
     combined_1to2 |-> combined(join(sorted_tokens(t1 \cap t2), <<Space>>),
                                join(sorted_tokens(t1 \ t2), <<Space>>)),
     combined_2to1 |-> combined(join(sorted_tokens(t1 \cap t2), <<Space>>),
                                join(sorted_tokens(t2 \ t1), <<Space>>))]

\* *vec![r1, r2, r3].iter().max().unwrap(): the three calls are made in
\* order, and one that panics ends the call
vec_max(r1, r2, r3) ==
    IF r1.panic \/ r2.panic \/ r3.panic
    THEN PanicScore
    ELSE Score(CHOOSE m \in {r1.score, r2.score, r3.score} :
                  \A n \in {r1.score, r2.score, r3.score} : n <= m)

\* fuzzywuzzy_compatible::fuzz::token_set after check_trivial! and the
\* processing, on the three strings
token_set_max(strs, partial, bld) ==
    IF partial
    THEN vec_max(partial_ratio(strs.intersect_str, strs.combined_1to2, bld),
                 partial_ratio(strs.intersect_str, strs.combined_2to1, bld),
                 partial_ratio(strs.combined_1to2, strs.combined_2to1, bld))
    ELSE vec_max(ratio(strs.intersect_str, strs.combined_1to2, bld),
                 ratio(strs.intersect_str, strs.combined_2to1, bld),
                 ratio(strs.combined_1to2, strs.combined_2to1, bld))

token_set(s1, s2, partial, force_ascii, full_process, bld) ==
    IF check_trivial(s1, s2).returns
    THEN Score(check_trivial(s1, s2).score)
    ELSE token_set_max(
            token_set_strings(
                token_hash_set(IF full_process THEN compat_full_process(s1, force_ascii) ELSE s1),
                token_hash_set(IF full_process THEN compat_full_process(s2, force_ascii) ELSE s2)),
            partial, bld)

token_set_ratio(s1, s2, force_ascii, full_process, bld) ==
    token_set(s1, s2, FALSE, force_ascii, full_process, bld)

partial_token_set_ratio(s1, s2, force_ascii, full_process, bld) ==
    token_set(s1, s2, TRUE, force_ascii, full_process, bld)

\* fuzz::token_set, likewise
fuzz_token_set_max(strs, partial) ==
    IF partial
    THEN vec_max(fuzz_partial_ratio(strs.intersect_str, strs.combined_1to2),
                 fuzz_partial_ratio(strs.intersect_str, strs.combined_2to1),
                 fuzz_partial_ratio(strs.combined_1to2, strs.combined_2to1))
    ELSE vec_max(fuzz_ratio(strs.intersect_str, strs.combined_1to2),
                 fuzz_ratio(strs.intersect_str, strs.combined_2to1),
                 fuzz_ratio(strs.combined_1to2, strs.combined_2to1))

fuzz_token_set(s1, s2, partial, force_ascii, full_process) ==
    IF check_trivial(s1, s2).returns
    THEN Score(check_trivial(s1, s2).score)
    ELSE fuzz_token_set_max(
            token_set_strings(
                token_hash_set(IF full_process THEN utils_full_process(s1, force_ascii) ELSE s1),
                token_hash_set(IF full_process THEN utils_full_process(s2, force_ascii) ELSE s2)),
            partial)

fuzz_token_set_ratio(s1, s2, force_ascii, full_process) ==
    fuzz_token_set(s1, s2, FALSE, force_ascii, full_process)

fuzz_partial_token_set_ratio(s1, s2, force_ascii, full_process) ==
    fuzz_token_set(s1, s2, TRUE, force_ascii, full_process)

(***************************************************************************)
(* wratio.  Its f64 values are products of a score in 0..100 and the       *)
(* scales 0.95, 0.90 and 0.6; they are held here in ten-thousandths, as    *)
(* exact integers.  The f64 products are not exact, but each of them       *)
(* rounds (f64::round, half away from zero) to the same integer as its     *)
(* exact value does, for every score in 0..100, and round is monotone, so  *)
(* the rounded maximum is the same.                                        *)
(***************************************************************************)
\* const UNBASE_SCALE: f64 = 0.95, in hundredths
UNBASE_SCALE == 95

\* std::cmp::max
Max(x, y) == IF x >= y THEN x ELSE y

\* len_ratio < 1.5, for len_ratio = max(p1_len, p2_len) as f64 /
\* min(p1_len, p2_len) as f64: false for the infinity of n / 0 and for the
\* NaN of 0 / 0
len_ratio_similar(p1_len, p2_len) ==
    /\ Min(p1_len, p2_len) > 0
    /\ 2 * Max(p1_len, p2_len) < 3 * Min(p1_len, p2_len)

\* partial_scale left at 1.0
partial_scale_unscaled(p1_len, p2_len) == 100

\* partial_scale, in hundredths: 0.6 when len_ratio > 8.0, which the infinity
\* of n / 0 is and the NaN of 0 / 0 is not
partial_scale(p1_len, p2_len) ==
    IF \/ Min(p1_len, p2_len) > 0 /\ Max(p1_len, p2_len) > 8 * Min(p1_len, p2_len)
       \/ Min(p1_len, p2_len) = 0 /\ Max(p1_len, p2_len) > 0
    THEN 60
    ELSE 90

\* score as f64 * scale, for a scale in ten-thousandths; a call that
\* panicked has no value
scaled(r, scale) == [panic |-> r.panic, value |-> r.score * scale]

\* vec![..].iter().cloned().fold(f64::NAN, f64::max).round() as u8
fold_max_round(values) ==
    IF \E n \in 1..Len(values) : values[n].panic
    THEN PanicScore
    ELSE Score(((CHOOSE m \in {values[n].value : n \in 1..Len(values)} :
                    \A n \in 1..Len(values) : values[n].value <= m) + 5000) \div 10000)

\* fuzzywuzzy_compatible::fuzz::wratio from `let base` on
wratio_blend(p1r, p2r, try_partial, scale, bld) ==
    IF try_partial
    THEN fold_max_round(<<
            scaled(ratio(p1r, p2r, bld), 10000),
            scaled(partial_ratio(p1r, p2r, bld), 100 * scale),
            scaled(partial_token_sort_ratio(p1r, p2r, TRUE, FALSE, bld), UNBASE_SCALE * scale),
            scaled(partial_token_set_ratio(p1r, p2r, TRUE, FALSE, bld), UNBASE_SCALE * scale)>>)
    ELSE fold_max_round(<<
            scaled(ratio(p1r, p2r, bld), 10000),
            scaled(token_sort_ratio(p1r, p2r, TRUE, FALSE, bld), UNBASE_SCALE * 100),
            scaled(token_set_ratio(p1r, p2r, TRUE, FALSE, bld), UNBASE_SCALE * 100)>>)

wratio_processed(p1r, p2r, bld) ==
    wratio_blend(p1r, p2r, ~len_ratio_similar(Len(p1r), Len(p2r)),
                 partial_scale(Len(p1r), Len(p2r)), bld)

wratio(s1, s2, force_ascii, full_process, bld) ==
    IF check_trivial(s1, s2).returns
    THEN Score(check_trivial(s1, s2).score)
    ELSE wratio_processed(
            IF full_process THEN compat_full_process(s1, force_ascii) ELSE s1,
            IF full_process THEN compat_full_process(s2, force_ascii) ELSE s2, bld)

\* utils::validate_string
validate_string(s) == s # <<>>

\* fuzz::wratio, likewise
fuzz_wratio_blend(p1r, p2r, try_partial, scale) ==
    IF try_partial
    THEN fold_max_round(<<
            scaled(fuzz_ratio(p1r, p2r), 10000),
            scaled(fuzz_partial_ratio(p1r, p2r), 100 * scale),
            scaled(fuzz_partial_token_sort_ratio(p1r, p2r, TRUE, FALSE), UNBASE_SCALE * scale),
            scaled(fuzz_partial_token_set_ratio(p1r, p2r, TRUE, FALSE), UNBASE_SCALE * scale)>>)
    ELSE fold_max_round(<<
            scaled(fuzz_ratio(p1r, p2r), 10000),
            scaled(fuzz_token_sort_ratio(p1r, p2r, TRUE, FALSE), UNBASE_SCALE * 100),
            scaled(fuzz_token_set_ratio(p1r, p2r, TRUE, FALSE), UNBASE_SCALE * 100)>>)

fuzz_wratio_processed(p1r, p2r) ==
    IF ~validate_string(p1r) \/ ~validate_string(p2r)
    THEN Score(0)
    ELSE fuzz_wratio_blend(p1r, p2r, ~len_ratio_similar(Len(p1r), Len(p2r)),
                           partial_scale(Len(p1r), Len(p2r)))

fuzz_wratio(s1, s2, force_ascii, full_process) ==
    IF check_trivial(s1, s2).returns
    THEN Score(check_trivial(s1, s2).score)
    ELSE fuzz_wratio_processed(
            IF full_process THEN utils_full_process(s1, force_ascii) ELSE s1,
            IF full_process THEN utils_full_process(s2, force_ascii) ELSE s2)

(***************************************************************************)
(* primitives.rs: struct Score.  An Option or a Result is a record whose   *)
(* field `ok` tells Some / Ok from None / Err.                             *)
(***************************************************************************)
\* const MAX: u8 = 100
Score_MAX == 100

\* Score::new that clamps instead of rejecting
Score_new_clamped(given) == [ok |-> TRUE, score |-> Min(given, Score_MAX)]

\* Score::new
Score_new(given) ==
    IF given <= Score_MAX
    THEN [ok |-> TRUE, score |-> given]
    ELSE [ok |-> FALSE]

\* <Score as TryFrom<u8>>::try_from; the Err holds the message, which names
\* the value given
Score_try_from(given) ==
    IF given <= Score_MAX
    THEN [ok |-> TRUE, score |-> given]
    ELSE [ok |-> FALSE, err |-> <<"Score must be [0, 100]. Given: ", given>>]

\* Score::score
Score_score(self) == self.score

(***************************************************************************)
(* process.rs.  A Match is a record [text, score]; a Vec is a sequence; an *)
(* Option<u64> is <<>> for None and <<n>> for Some(n).  The processor and  *)
(* the scorer are the caller's: they are given by name, "into" for the     *)
(* closure |s, b| s.into() and "full_process" for utils::full_process,     *)
(* "wratio", "token_sort_ratio" and "token_set_ratio" for those of fuzz.rs.*)
(***************************************************************************)
Match_new(text, score_of) == [text |-> text, score |-> score_of]

\* processor(s, false)
apply_processor(processor, s) ==
    IF processor = "full_process" THEN utils_full_process(s, FALSE) ELSE s

\* scorer(s1, s2, true, true)
apply_scorer(scorer, s1, s2) ==
    IF scorer = "wratio"
    THEN fuzz_wratio(s1, s2, TRUE, TRUE)
    ELSE IF scorer = "token_set_ratio"
    THEN fuzz_token_set_ratio(s1, s2, TRUE, TRUE)
    ELSE fuzz_token_sort_ratio(s1, s2, TRUE, TRUE)

\* extract_without_order: the scores of the choices, in the order of the
\* choices
ewo_scores(processed_query, choices, processor, scorer) ==
    [n \in 1..Len(choices) |->
        apply_scorer(scorer, processed_query, apply_processor(processor, choices[n]))]

\* its loop, which pushes a Match for each score that reaches the cutoff
ewo_results(choices, scores, score_cutoff) ==
    [panic |-> \E n \in 1..Len(scores) : scores[n].panic,
     results |-> SelectSeq([n \in 1..Len(choices) |-> Match_new(choices[n], scores[n].score)],
                           LAMBDA m : m.score >= score_cutoff)]

extract_without_order(query, choices, processor, scorer, score_cutoff) ==
    ewo_results(choices,
                ewo_scores(apply_processor(processor, query), choices, processor, scorer),
                score_cutoff)

\* matches.sort(): stable, by Ord for Match, which compares the scores only
sort(matches) ==
    [i \in 1..Len(matches) |->
        matches[CHOOSE n \in 1..Len(matches) :
                   Cardinality({k \in 1..Len(matches) :
                                   \/ matches[k].score < matches[n].score
                                   \/ matches[k].score = matches[n].score /\ k < n}) = i - 1]]

\* matches.reverse()
reverse(matches) == [i \in 1..Len(matches) |-> matches[Len(matches) + 1 - i]]

\* BinaryHeap::from(matches).into_sorted_vec(): the matches in ascending
\* order; the order of equal scores is the heap's, and any order is allowed
\* here
into_sorted_vec(matches) ==
    {[i \in 1..Len(matches) |-> matches[p[i]]] :
        p \in {q \in [1..Len(matches) -> 1..Len(matches)] :
                 /\ \A i, j \in 1..Len(matches) : q[i] = q[j] => i = j
                 /\ \A i, j \in 1..Len(matches) :
                       i < j => matches[q[i]].score <= matches[q[j]].score}}

\* .into_iter().take(limit as usize).collect()
take(matches, n) == SubSeq(matches, 1, Min(n, Len(matches)))

\* `match limit`, Some(limit): the results extract can return
extract_limited(matches, limit) ==
    {take(sorted, limit) : sorted \in into_sorted_vec(matches)}

\* extract: the results it can return
extract_match(matches, limit) ==
    IF limit = <<>>
    THEN {reverse(sort(matches))}
    ELSE extract_limited(matches, limit[1])

\* the positions of the matches no other match compares greater than
max_positions(matches) ==
    {n \in 1..Len(matches) : \A k \in 1..Len(matches) : matches[k].score <= matches[n].score}

\* Iterator::max_by with the first of several equally maximum elements
max_by_first(matches) == matches[FirstOf(max_positions(matches))]

\* Iterator::max_by on a non-empty iterator, comparing the scores: if
\* several elements are equally maximum, the last element is returned
max_by(matches) ==
    matches[CHOOSE n \in max_positions(matches) : \A k \in max_positions(matches) : k <= n]

\* extract_one from the result of extract_without_order; None is <<>> and
\* Some(m) is <<m>>
extract_one_best(best) ==
    IF best = <<>> THEN <<>> ELSE <<max_by(reverse(best))>>

\* .into_iter().filter(|m| m.score() > threshold).collect()
above_threshold(matches, threshold) == SelectSeq(matches, LAMBDA m : m.score > threshold)

\* matches.sort_by(|lhs, rhs| lhs.text.cmp(&rhs.text)): stable
sort_by_text(matches) ==
    [i \in 1..Len(matches) |->
        matches[CHOOSE n \in 1..Len(matches) :
                   Cardinality({k \in 1..Len(matches) :
                                   \/ StrLess(matches[k].text, matches[n].text)
                                   \/ matches[k].text = matches[n].text /\ k < n}) = i - 1]]

\* text.len(), in bytes
text_len(m) == byte_offset(m.text, Len(m.text))

\* matches.sort_by(|lhs, rhs| lhs.text.len().cmp(&rhs.text.len())): stable
sort_by_len(matches) ==
    [i \in 1..Len(matches) |->
        matches[CHOOSE n \in 1..Len(matches) :
                   Cardinality({k \in 1..Len(matches) :
                                   \/ text_len(matches[k]) < text_len(matches[n])
                                   \/ text_len(matches[k]) = text_len(matches[n]) /\ k < n}) = i - 1]]

\* the two sorts of dedupe, skipped for exactly one match
dedupe_sorted(matches) ==
    IF Len(matches) # 1 THEN sort_by_len(sort_by_text(matches)) ELSE matches

\* matches[0].text.clone(): a panic when there is no match
dedupe_canonical(matches) ==
    IF matches = <<>>
    THEN [panic |-> TRUE, text |-> <<>>]
    ELSE [panic |-> FALSE, text |-> dedupe_sorted(matches)[1].text]

\* one iteration of the loop of dedupe: the canonical examples it can push
\* for `item`
dedupe_item(item, contains_dupes, threshold, scorer, score_cutoff, limit) ==
    IF extract_without_order(item, contains_dupes, "full_process", scorer, score_cutoff).panic
    THEN {[panic |-> TRUE, text |-> <<>>]}
    ELSE {dedupe_canonical(above_threshold(found, threshold)) :
             found \in extract_match(
                 extract_without_order(item, contains_dupes, "full_process", scorer,
                                       score_cutoff).results,
                 limit)}

\* extractor.into_iter().collect() of a HashSet: its elements in the
\* iteration order of the set, which is any order
hash_set_into_vec(set) ==
    {order \in [1..Cardinality(set) -> set] : \A t \in set : \E n \in DOMAIN order : order[n] = t}

\* the end of dedupe, from the Vec `extractor`
dedupe_unique(extractor, contains_dupes) ==
    IF Cardinality({extractor[n] : n \in DOMAIN extractor}) = Len(contains_dupes)
    THEN {contains_dupes}
    ELSE hash_set_into_vec({extractor[n] : n \in DOMAIN extractor})

\* the values `extractor` can have after the loop, given what each iteration
\* can push
dedupe_extractors(pushed) ==
    {extractor \in [1..Len(pushed) -> UNION {{c.text : c \in pushed[n]} : n \in 1..Len(pushed)}] :
        \A n \in 1..Len(pushed) : \E c \in pushed[n] : ~c.panic /\ c.text = extractor[n]}

\* dedupe from what its iterations can push: whether it can panic, and the
\* lists it can return
dedupe_results(pushed, contains_dupes) ==
    [panic |-> \E n \in 1..Len(pushed) : \E c \in pushed[n] : c.panic,
     results |-> UNION {dedupe_unique(extractor, contains_dupes) :
                           extractor \in dedupe_extractors(pushed)}]

dedupe(contains_dupes, threshold, scorer, score_cutoff, limit) ==
    dedupe_results([n \in 1..Len(contains_dupes) |->
                       dedupe_item(contains_dupes[n], contains_dupes, threshold, scorer,
                                   score_cutoff, limit)],
                   contains_dupes)

(***************************************************************************)
(* fuzzywuzzy_compatible/process.rs.  dedupe_full is generic in the scorer *)
(* and the sorter; they are those of its doctest: the scorer gives 100 to  *)
(* two strings with the same first character and 0 otherwise, the sorter   *)
(* compares the byte lengths and then the strings.                         *)
(***************************************************************************)
\* a.chars().next() == b.chars().next()
temp_scorer(x, y) ==
    IF (x = <<>> /\ y = <<>>) \/ (x # <<>> /\ y # <<>> /\ x[1] = y[1]) THEN 100 ELSE 0

\* sorter.sort(x, y) = Ordering::Less
sorter_less(x, y) ==
    \/ byte_offset(x, Len(x)) < byte_offset(y, Len(y))
    \/ byte_offset(x, Len(x)) = byte_offset(y, Len(y)) /\ StrLess(x, y)

\* extract_without_order_full with the identity processor: the choices
\* whose score reaches the cutoff, in the order of the choices
extract_without_order_full(query, choices, score_cutoff) ==
    IF choices = <<>>
    THEN <<>>
    ELSE SelectSeq([n \in 1..Len(choices) |->
                       [item |-> choices[n], score |-> temp_scorer(query, choices[n])]],
                   LAMBDA m : m.score >= score_cutoff)

\* matches.sort_by(|a, b| sorter.sort(a.item, b.item).reverse()): stable,
\* greatest first
sort_by_sorter_reverse(matches) ==
    [i \in 1..Len(matches) |->
        matches[CHOOSE n \in 1..Len(matches) :
                   Cardinality({k \in 1..Len(matches) :
                                   \/ sorter_less(matches[n].item, matches[k].item)
                                   \/ matches[k].item = matches[n].item /\ k < n}) = i - 1]]

\* matches.iter().map(|m| m.item).take(1)
take_first_item(matches) == IF matches = <<>> THEN <<>> ELSE <<matches[1].item>>

\* the loop of dedupe_full: extractor after the items up to number n
RECURSIVE dedupe_full_extractor(_, _, _)
dedupe_full_extractor(items, threshold, n) ==
    IF n = 0
    THEN <<>>
    ELSE dedupe_full_extractor(items, threshold, n - 1)
         \o take_first_item(sort_by_sorter_reverse(
                extract_without_order_full(items[n], items, threshold)))

\* extractor.into_iter().enumerate().collect(), the indices from 0
enumerate(extractor) == [n \in 1..Len(extractor) |-> <<n - 1, extractor[n]>>]

\* sorted.sort_unstable_by(|(_, a), (_, b)| a.cmp(b).reverse()): the items
\* greatest first; the order of equal items is not specified, and any order
\* is allowed here
sort_unstable_by_item_reverse(sorted) ==
    {[i \in 1..Len(sorted) |-> sorted[p[i]]] :
        p \in {q \in [1..Len(sorted) -> 1..Len(sorted)] :
                 /\ \A i, j \in 1..Len(sorted) : q[i] = q[j] => i = j
                 /\ \A i, j \in 1..Len(sorted) :
                       i < j => ~StrLess(sorted[q[i]][2], sorted[q[j]][2])}}

\* the fold of step (3): a pair is pushed unless its item equals the item
\* of the last pair pushed
RECURSIVE dedup_fold(_, _)
dedup_fold(sorted, n) ==
    IF n = 0
    THEN <<>>
    ELSE LET v == dedup_fold(sorted, n - 1)
         IN  IF v # <<>> /\ v[Len(v)][2] = sorted[n][2] THEN v ELSE Append(v, sorted[n])

\* deduped.sort_unstable_by(|(a1, _), (b1, _)| a1.cmp(b1)): the indices are
\* unique
sort_by_index(deduped) ==
    [i \in 1..Len(deduped) |->
        deduped[CHOOSE n \in 1..Len(deduped) :
                   Cardinality({k \in 1..Len(deduped) : deduped[k][1] < deduped[n][1]}) = i - 1]]

\* .map(|(_, item)| item).collect()
items_of(deduped) == [n \in 1..Len(deduped) |-> deduped[n][2]]

\* the stable branch: the lists it can return
dedupe_full_stable(extractor) ==
    {items_of(sort_by_index(dedup_fold(sorted, Len(sorted)))) :
        sorted \in sort_unstable_by_item_reverse(enumerate(extractor))}

\* the unstable branch: extractor.sort_unstable_by(..); extractor.dedup()
dedupe_full_unstable(extractor) ==
    {items_of(dedup_fold(sorted, Len(sorted))) :
        sorted \in sort_unstable_by_item_reverse(enumerate(extractor))}

\* dedupe_full with the scorer and the sorter above: the lists it can return
dedupe_full(items, threshold, stable) ==
    IF stable
    THEN dedupe_full_stable(dedupe_full_extractor(items, threshold, Len(items)))
    ELSE dedupe_full_unstable(dedupe_full_extractor(items, threshold, Len(items)))

(***************************************************************************)
(* The state machine: one call of one function on the arguments (a, b).    *)
(* get_matching_blocks is run iteration by iteration.                      *)
(***************************************************************************)
\* no find_longest_match call made yet
NoCall == <<>>

\* a call about to start; `given` are its arguments other than a and b
StartWith(x, y, given) ==
    /\ a = x
    /\ b = y
    /\ input = given
    /\ output = <<>>
    /\ pc = "start"
    /\ op = "none"
    /\ build = "none"
    /\ flags = <<FALSE, FALSE>>
    /\ queue = <<>>
    /\ matching_blocks = <<>>
    /\ call = NoCall
    /\ streak = MatchingStreak(0, 0, 0)
    /\ blocks = <<>>
    /\ score = 0
    /\ panicked = FALSE

Start(x, y) == StartWith(x, y, <<>>)

\* the first argument over two characters, the second, which may be one
\* longer, over three
Init == \E x \in Inputs(Chars, MaxLen - 1), y \in Inputs(Alphabet, MaxLen) : Start(x, y)

\* get_matching_blocks(&a, &b) up to its loop
GmbBegin(bld) ==
    /\ pc = "start"
    /\ pc' = "gmb_loop"
    /\ op' = "get_matching_blocks"
    /\ build' = bld
    /\ queue' = gmb_initial_queue(gmb_shorter(a, b), gmb_longer(a, b))
    /\ UNCHANGED <<a, b, flags, matching_blocks, call, streak, blocks, score, panicked,
                   input, output>>

\* one iteration of its while loop
GmbIterated(r) ==
    /\ call' = queue[Len(queue)]
    /\ streak' = r.streak
    /\ queue' = r.queue
    /\ matching_blocks' = r.matching_blocks
    /\ panicked' = r.panic
    /\ pc' = IF r.panic THEN "done" ELSE "gmb_loop"

GmbIteration ==
    /\ pc = "gmb_loop"
    /\ queue # <<>>
    /\ GmbIterated(gmb_iteration(gmb_shorter(a, b), gmb_longer(a, b),
                                queue, matching_blocks, build))
    /\ UNCHANGED <<a, b, op, build, flags, blocks, score, input, output>>

\* the loop has ended: the rest of get_matching_blocks
GmbFinish ==
    /\ pc = "gmb_loop"
    /\ queue = <<>>
    /\ blocks' = gmb_finish(matching_blocks, Len(gmb_shorter(a, b)),
                            Len(gmb_longer(a, b)), gmb_flipped(a, b))
    /\ pc' = "done"
    /\ UNCHANGED <<a, b, op, build, flags, queue, matching_blocks, call, streak,
                   score, panicked, input, output>>

\* utils::get_matching_blocks(a, b)
CallUtilsGetMatchingBlocks ==
    /\ pc = "start"
    /\ pc' = "done"
    /\ op' = "utils_get_matching_blocks"
    /\ LET r == utils_get_matching_blocks(a, b)
       IN  /\ blocks' = r.blocks
           /\ panicked' = r.panic
    /\ UNCHANGED <<a, b, build, flags, queue, matching_blocks, call, streak, score,
                   input, output>>

\* a call that returns a score
Returns(name, bld, fl, r) ==
    /\ pc = "start"
    /\ pc' = "done"
    /\ op' = name
    /\ build' = bld
    /\ flags' = fl
    /\ score' = r.score
    /\ panicked' = r.panic
    /\ UNCHANGED <<a, b, queue, matching_blocks, call, streak, blocks, input, output>>

CallSimpleRatio(bld) ==
    Returns("simple_ratio", bld, flags, simple_ratio(a, b, bld))

CallFuzzRatio ==
    Returns("fuzz_ratio", build, flags, fuzz_ratio(a, b))

CallFuzzPartialRatio ==
    Returns("fuzz_partial_ratio", build, flags, fuzz_partial_ratio(a, b))

CallPartialRatio(bld) ==
    Returns("partial_ratio", bld, flags, partial_ratio(a, b, bld))

CallPartialTokenSortRatio(bld, force_ascii, full_process) ==
    Returns("partial_token_sort_ratio", bld, <<force_ascii, full_process>>,
            partial_token_sort_ratio(a, b, force_ascii, full_process, bld))

\* the matching-block engine and the whole-sequence ratios
Next ==
    \/ \E bld \in Builds : GmbBegin(bld)
    \/ GmbIteration
    \/ GmbFinish
    \/ CallUtilsGetMatchingBlocks
    \/ \E bld \in Builds : CallSimpleRatio(bld)
    \/ CallFuzzRatio

Spec == Init /\ [][Next]_vars

\* utils::get_matching_blocks(a, b) up to its loop
UtilsGmbBegin ==
    /\ pc = "start"
    /\ pc' = "utils_gmb_loop"
    /\ op' = "utils_get_matching_blocks"
    /\ queue' = gmb_initial_queue(gmb_shorter(a, b), gmb_longer(a, b))
    /\ UNCHANGED <<a, b, build, flags, matching_blocks, call, streak, blocks, score,
                   panicked, input, output>>

\* one iteration of its while loop
UtilsGmbIteration ==
    /\ pc = "utils_gmb_loop"
    /\ queue # <<>>
    /\ call' = queue[Len(queue)]
    /\ streak' = utils_find_longest_match(gmb_shorter(a, b), gmb_longer(a, b),
                                          queue[Len(queue)][1], queue[Len(queue)][2],
                                          queue[Len(queue)][3], queue[Len(queue)][4])
    /\ LET r == utils_gmb_iteration(gmb_shorter(a, b), gmb_longer(a, b), queue,
                                    matching_blocks)
       IN  /\ queue' = r.queue
           /\ matching_blocks' = r.matching_blocks
           /\ panicked' = r.panic
           /\ pc' = IF r.panic THEN "done" ELSE "utils_gmb_loop"
    /\ UNCHANGED <<a, b, op, build, flags, blocks, score, input, output>>

\* the loop has ended: the rest of utils::get_matching_blocks
UtilsGmbFinish ==
    /\ pc = "utils_gmb_loop"
    /\ queue = <<>>
    /\ blocks' = gmb_finish(matching_blocks, Len(gmb_shorter(a, b)),
                            Len(gmb_longer(a, b)), gmb_flipped(a, b))
    /\ pc' = "done"
    /\ UNCHANGED <<a, b, op, build, flags, queue, matching_blocks, call, streak,
                   score, panicked, input, output>>

\* the two get_matching_blocks, iteration by iteration
NextQueue ==
    \/ \E bld \in Builds : GmbBegin(bld)
    \/ GmbIteration
    \/ GmbFinish
    \/ UtilsGmbBegin
    \/ UtilsGmbIteration
    \/ UtilsGmbFinish

SpecQueue == Init /\ [][NextQueue]_vars

\* the partial ratios
NextPartial ==
    \/ \E bld \in Builds : CallPartialRatio(bld)
    \/ CallFuzzPartialRatio
    \/ \E bld \in Builds, fa \in BOOLEAN, fp \in BOOLEAN :
          CallPartialTokenSortRatio(bld, fa, fp)

SpecPartial == Init /\ [][NextPartial]_vars

\* the whole-sequence ratios on x^run against x^run y^tail
InitLong ==
    \E run \in 1..MaxRun, tail \in 1..MaxTail :
        Start(Repeat(97, run), Repeat(97, run) \o Repeat(98, tail))

NextLong ==
    \/ \E bld \in Builds : CallSimpleRatio(bld)
    \/ CallFuzzRatio

SpecLong == InitLong /\ [][NextLong]_vars

\* the token ratios are called on texts of two letters and the space
TokenChars == {Space, 97, 98}

InitToken ==
    \E x \in Inputs(TokenChars, MaxLen - 1), y \in Inputs(TokenChars, MaxLen) : Start(x, y)

CallTokenSortRatio(bld, force_ascii, full_process) ==
    Returns("token_sort_ratio", bld, <<force_ascii, full_process>>,
            token_sort_ratio(a, b, force_ascii, full_process, bld))

CallFuzzTokenSortRatio(force_ascii, full_process) ==
    Returns("fuzz_token_sort_ratio", build, <<force_ascii, full_process>>,
            fuzz_token_sort_ratio(a, b, force_ascii, full_process))

CallTokenSetRatio(bld, force_ascii, full_process) ==
    Returns("token_set_ratio", bld, <<force_ascii, full_process>>,
            token_set_ratio(a, b, force_ascii, full_process, bld))

CallPartialTokenSetRatio(bld, force_ascii, full_process) ==
    Returns("partial_token_set_ratio", bld, <<force_ascii, full_process>>,
            partial_token_set_ratio(a, b, force_ascii, full_process, bld))

CallFuzzTokenSetRatio(force_ascii, full_process) ==
    Returns("fuzz_token_set_ratio", build, <<force_ascii, full_process>>,
            fuzz_token_set_ratio(a, b, force_ascii, full_process))

CallFuzzPartialTokenSetRatio(force_ascii, full_process) ==
    Returns("fuzz_partial_token_set_ratio", build, <<force_ascii, full_process>>,
            fuzz_partial_token_set_ratio(a, b, force_ascii, full_process))

\* the token-sort ratios
NextToken ==
    \/ \E bld \in Builds, fa \in BOOLEAN, fp \in BOOLEAN : CallTokenSortRatio(bld, fa, fp)
    \/ \E fa \in BOOLEAN, fp \in BOOLEAN : CallFuzzTokenSortRatio(fa, fp)

SpecToken == InitToken /\ [][NextToken]_vars

\* the token-set ratios: the first text as above, the second, which may be
\* one longer, of one letter and the space
InitTokenSet ==
    \E x \in Inputs(TokenChars, MaxLen - 1), y \in Inputs(TokenChars \ {98}, MaxLen) :
        Start(x, y)

NextTokenSet ==
    \/ \E bld \in Builds, fa \in BOOLEAN, fp \in BOOLEAN : CallTokenSetRatio(bld, fa, fp)
    \/ \E bld \in Builds, fa \in BOOLEAN, fp \in BOOLEAN : CallPartialTokenSetRatio(bld, fa, fp)
    \/ \E fa \in BOOLEAN, fp \in BOOLEAN : CallFuzzTokenSetRatio(fa, fp)
    \/ \E fa \in BOOLEAN, fp \in BOOLEAN : CallFuzzPartialTokenSetRatio(fa, fp)

SpecTokenSet == InitTokenSet /\ [][NextTokenSet]_vars

\* wratio is called on the short texts of the space, 'a' and U+00E9, on runs
\* of 'a' up to more than eight times as long, on two texts of punctuation
\* and on two texts whose sorted tokens are closer than the texts are
WratioChars == {Space, 97, 233}

\* "!"
Text_bang ==
    <<33>>

\* "?"
Text_question ==
    <<63>>

\* "b a a"
Text_b_a_a ==
    <<98, 32, 97, 32, 97>>

\* "a a c"
Text_a_a_c ==
    <<97, 32, 97, 32, 99>>

WratioTexts ==
    Inputs(WratioChars, MaxWord)
        \cup {Repeat(97, n) : n \in (MaxWord + 1)..MaxRepeat}
        \cup {Text_bang, Text_question, Text_b_a_a, Text_a_a_c}

InitWratio == \E x \in WratioTexts, y \in WratioTexts : Start(x, y)

CallWratio(bld, force_ascii, full_process) ==
    Returns("wratio", bld, <<force_ascii, full_process>>,
            wratio(a, b, force_ascii, full_process, bld))

CallFuzzWratio(force_ascii, full_process) ==
    Returns("fuzz_wratio", build, <<force_ascii, full_process>>,
            fuzz_wratio(a, b, force_ascii, full_process))

NextWratio ==
    \/ \E bld \in Builds, fa \in BOOLEAN, fp \in BOOLEAN : CallWratio(bld, fa, fp)
    \/ \E fa \in BOOLEAN, fp \in BOOLEAN : CallFuzzWratio(fa, fp)

SpecWratio == InitWratio /\ [][NextWratio]_vars

\* Score::new and Score::try_from on every u8
InitScore == \E given \in 0..U8Max : StartWith(<<>>, <<>>, given)

\* a call that returns something else than a score
Outputs(name, result) ==
    /\ pc = "start"
    /\ pc' = "done"
    /\ op' = name
    /\ output' = result
    /\ UNCHANGED <<a, b, build, flags, queue, matching_blocks, call, streak, blocks,
                   score, panicked, input>>

CallScoreNew == Outputs("Score::new", Score_new(input))

CallScoreTryFrom == Outputs("Score::try_from", Score_try_from(input))

NextScore ==
    \/ CallScoreNew
    \/ CallScoreTryFrom

SpecScore == InitScore /\ [][NextScore]_vars

\* extract is called with the query "a" on up to MaxChoices choices among
\* "a", "A", "ab" and "b", with either processor and scorer, a cutoff of 0 or
\* 50, and every limit up to the number of choices
ChoiceTexts == {<<97>>, <<65>>, <<97, 98>>, <<98>>}

ExtractArguments ==
    [choices : Inputs(ChoiceTexts, MaxChoices),
     processor : {"into", "full_process"},
     scorer : {"wratio", "token_sort_ratio"},
     score_cutoff : {0, 50},
     limit : {<<>>} \cup {<<n>> : n \in 0..MaxChoices}]

InitExtract == \E given \in ExtractArguments : StartWith(<<97>>, <<>>, given)

\* extract(query, choices, processor, scorer, score_cutoff, limit)
Extracts(found) ==
    /\ pc = "start"
    /\ pc' = "done"
    /\ op' = "extract"
    /\ panicked' = found.panic
    /\ \E result \in extract_match(found.results, input.limit) :
          output' = IF found.panic THEN <<>> ELSE result
    /\ UNCHANGED <<a, b, build, flags, queue, matching_blocks, call, streak, blocks,
                   score, input>>

CallExtract ==
    Extracts(extract_without_order(a, input.choices, input.processor, input.scorer,
                                   input.score_cutoff))

\* extract_one(query, choices, processor, scorer, score_cutoff)
ExtractsOne(found) ==
    /\ pc = "start"
    /\ pc' = "done"
    /\ op' = "extract_one"
    /\ panicked' = found.panic
    /\ output' = IF found.panic THEN <<>> ELSE extract_one_best(found.results)
    /\ UNCHANGED <<a, b, build, flags, queue, matching_blocks, call, streak, blocks,
                   score, input>>

CallExtractOne ==
    ExtractsOne(extract_without_order(a, input.choices, input.processor, input.scorer,
                                      input.score_cutoff))

NextExtract ==
    \/ CallExtract
    \/ CallExtractOne

SpecExtract == InitExtract /\ [][NextExtract]_vars

\* dedupe is called on up to MaxChoices items among "a", "A", "ab" and "b",
\* with a threshold of 0, 50 or 100, either scorer, a cutoff of 0, and no
\* limit or one that keeps every match
DedupeThresholds == {0, 50, 100}

DedupeArguments ==
    [contains_dupes : Inputs(ChoiceTexts, MaxChoices),
     threshold : DedupeThresholds,
     scorer : {"wratio", "token_sort_ratio"},
     score_cutoff : {0},
     limit : {<<>>, <<MaxChoices>>}]

InitDedupe == \E given \in DedupeArguments : StartWith(<<>>, <<>>, given)

\* dedupe(contains_dupes, threshold, scorer, score_cutoff, limit)
Dedupes(found) ==
    /\ pc = "start"
    /\ pc' = "done"
    /\ op' = "dedupe"
    /\ \/ found.panic /\ panicked' = TRUE /\ output' = <<>>
       \/ \E result \in found.results : panicked' = FALSE /\ output' = result
    /\ UNCHANGED <<a, b, build, flags, queue, matching_blocks, call, streak, blocks,
                   score, input>>

CallDedupe ==
    Dedupes(dedupe(input.contains_dupes, input.threshold, input.scorer, input.score_cutoff,
                   input.limit))

NextDedupe == CallDedupe

SpecDedupe == InitDedupe /\ [][NextDedupe]_vars

\* dedupe_full is called on up to MaxItems items among "a", "A", "ab" and
\* "b", with a threshold of 0 or 70, stable or not
MaxItems == 4

DedupeFullArguments ==
    [items : Inputs(ChoiceTexts, MaxItems),
     threshold : {0, 70},
     stable : BOOLEAN]

InitDedupeFull == \E given \in DedupeFullArguments : StartWith(<<>>, <<>>, given)

CallDedupeFull ==
    \E result \in dedupe_full(input.items, input.threshold, input.stable) :
        Outputs("dedupe_full", result)

NextDedupeFull == CallDedupeFull

SpecDedupeFull == InitDedupeFull /\ [][NextDedupeFull]_vars

\* the normalization functions are applied to every string of up to MaxLen
\* characters among the space, "!", "_", "A" and "é"
NormalizerChars == {Space, 33, 95, 65, 233}

InitNormalizer ==
    \E s \in Inputs(NormalizerChars, MaxLen), force_ascii \in BOOLEAN :
        StartWith(s, <<>>, [force_ascii |-> force_ascii])

CallSplittingAlphanumericNormalizer ==
    Outputs("SplittingAlphanumericNormalizer", SplittingAlphanumericNormalizer(a))

CallReplaceNonLettersNonNumbers ==
    Outputs("replace_non_letters_non_numbers_with_whitespace",
            replace_non_letters_non_numbers_with_whitespace(a))

CallFullProcess == Outputs("full_process", compat_full_process(a, input.force_ascii))

NextNormalizer ==
    \/ CallSplittingAlphanumericNormalizer
    \/ CallReplaceNonLettersNonNumbers
    \/ CallFullProcess

SpecNormalizer == InitNormalizer /\ [][NextNormalizer]_vars

(***************************************************************************)
(* The strings of the doctests, as their code points.                      *)
(***************************************************************************)
\* ""
Doc_empty ==
    <<>>

\* "nonempty"
Doc_nonempty ==
    <<110, 111, 110, 101, 109, 112, 116, 121>>

\* "ab"
Doc_ab ==
    <<97, 98>>

\* "bc"
Doc_bc ==
    <<98, 99>>

\* "cd"
Doc_cd ==
    <<99, 100>>

\* "ad"
Doc_ad ==
    <<97, 100>>

\* "ac"
Doc_ac ==
    <<97, 99>>

\* "abcd"
Doc_abcd ==
    <<97, 98, 99, 100>>

\* "hello"
Doc_hello ==
    <<104, 101, 108, 108, 111>>

\* "hello world"
Doc_hello_world ==
    <<104, 101, 108, 108, 111, 32, 119, 111, 114, 108, 100>>

\* "new york mets"
Doc_new_york_mets ==
    <<110, 101, 119, 32, 121, 111, 114, 107, 32, 109, 101, 116, 115>>

\* "the new york mets"
Doc_the_new_york_mets ==
    <<116, 104, 101, 32, 110, 101, 119, 32, 121, 111, 114, 107, 32, 109,
      101, 116, 115>>

\* "what about supercalifragilisticexpialidocious"
Doc_what_about ==
    <<119, 104, 97, 116, 32, 97, 98, 111, 117, 116, 32, 115, 117, 112, 101,
      114, 99, 97, 108, 105, 102, 114, 97, 103, 105, 108, 105, 115, 116,
      105, 99, 101, 120, 112, 105, 97, 108, 105, 100, 111, 99, 105, 111,
      117, 115>>

\* "supercalifragilisticexpialidocious about what"
Doc_about_what ==
    <<115, 117, 112, 101, 114, 99, 97, 108, 105, 102, 114, 97, 103, 105,
      108, 105, 115, 116, 105, 99, 101, 120, 112, 105, 97, 108, 105, 100,
      111, 99, 105, 111, 117, 115, 32, 97, 98, 111, 117, 116, 32, 119, 104,
      97, 116>>

\* the argument pairs of the doctests of partial_ratio
DocPairs ==
    { <<Doc_empty, Doc_empty>>, <<Doc_empty, Doc_nonempty>>,
      <<Doc_ab, Doc_abcd>>, <<Doc_bc, Doc_abcd>>, <<Doc_cd, Doc_abcd>>,
      <<Doc_ad, Doc_abcd>>, <<Doc_ac, Doc_abcd>>,
      <<Doc_hello, Doc_hello_world>>,
      <<Doc_new_york_mets, Doc_the_new_york_mets>>,
      <<Doc_what_about, Doc_about_what>> }

\* a doctest's arguments, in either order
InitDoc == \E p \in DocPairs : Start(p[1], p[2]) \/ Start(p[2], p[1])

SpecDoc == InitDoc /\ [][NextPartial]_vars

(***************************************************************************)
(* Properties                                                              *)
(***************************************************************************)
\* what a finished call returned, as the scorers' operators give it
Returned == [panic |-> panicked, score |-> score]

\* the whole-sequence ratio `name` on (x, y)
RatioOf(name, x, y, bld) ==
    IF name = "simple_ratio" THEN simple_ratio(x, y, bld) ELSE fuzz_ratio(x, y)

\* the matching blocks of the engine `name` on (x, y)
BlocksOf(name, x, y, bld) ==
    IF name = "get_matching_blocks"
    THEN get_matching_blocks(x, y, bld)
    ELSE utils_get_matching_blocks(x, y)

RatioDone == pc = "done" /\ op \in {"simple_ratio", "fuzz_ratio"}

BlocksDone == pc = "done" /\ op \in {"get_matching_blocks", "utils_get_matching_blocks"}

\* the two orders of the arguments agree: the same score, or the same sum of
\* block lengths, and a failure in one order is a failure in the other
OrdersAgree ==
    /\ RatioDone => Returned = RatioOf(op, b, a, build)
    /\ BlocksDone =>
          /\ panicked = BlocksOf(op, b, a, build).panic
          /\ ~panicked => SumSizes(blocks) = SumSizes(BlocksOf(op, b, a, build).blocks)

\* C1 as claimed: ratio is commutative, ratio(a, b) = ratio(b, a) for all a
\* and b of equal or of different length (stated for simple_ratio, and for
\* the calls that return a score in both orders).
C1_RatioCommutative ==
    (RatioDone /\ op = "simple_ratio" /\ ~panicked /\ ~simple_ratio(b, a, build).panic)
        => score = simple_ratio(b, a, build).score

\* C1 as amended: ratio(a, b) = ratio(b, a), and the block sums agree,
\* whenever a and b differ in length or are equal.
C1_RatioCommutativeUnequalLengths == (Len(a) # Len(b) \/ a = b) => OrdersAgree

\* a ratio strictly between 0 and 100 returned for a shorter first argument
C1_Witness ==
    /\ RatioDone
    /\ op = "simple_ratio"
    /\ Len(a) < Len(b)
    /\ ~panicked
    /\ score \in 1..99

\* C2: for all sequences a and b, simple_ratio(a, b) completes without a
\* failure and returns an integer in [0, 100].
C2_SimpleRatioCompletes ==
    (pc = "done" /\ op = "simple_ratio") => (~panicked /\ score \in 0..100)

\* the runs seq1[i..i+k] = seq2[j..j+k], k > 0, inside both windows
MatchingRuns(seq1, seq2, lo1, hi1, lo2, hi2) ==
    {r \in (lo1..hi1) \X (lo2..hi2) \X (1..(hi1 - lo1)) :
        /\ r[1] + r[3] <= hi1
        /\ r[2] + r[3] <= hi2
        /\ Slice(seq1, r[1], r[1] + r[3]) = Slice(seq2, r[2], r[2] + r[3])}

\* r is at least as good as s: longer, or as long and earlier in seq1, or
\* also as early in seq1 and not later in seq2
BetterRun(r, s) ==
    \/ r[3] > s[3]
    \/ r[3] = s[3] /\ r[1] < s[1]
    \/ r[3] = s[3] /\ r[1] = s[1] /\ r[2] <= s[2]

\* the reference result of find_longest_match
ReferenceMatch(seq1, seq2, lo1, hi1, lo2, hi2) ==
    IF MatchingRuns(seq1, seq2, lo1, hi1, lo2, hi2) = {}
    THEN <<lo1, lo2, 0>>
    ELSE CHOOSE r \in MatchingRuns(seq1, seq2, lo1, hi1, lo2, hi2) :
            \A s \in MatchingRuns(seq1, seq2, lo1, hi1, lo2, hi2) : BetterRun(r, s)

\* C3: every call find_longest_match(seq1, seq2, lo1, hi1, lo2, hi2) returns
\* the reference result: the longest run inside both windows, the earliest
\* in seq1 and then in seq2 among the longest, and (lo1, lo2, 0) when the
\* windows share no element.
C3_FindLongestMatchReference ==
    call # NoCall =>
        /\ ~streak.panic
        /\ <<streak.idx1, streak.idx2, streak.size>>
              = ReferenceMatch(gmb_shorter(a, b), gmb_longer(a, b),
                               call[1], call[2], call[3], call[4])

\* C4: the list returned by get_matching_blocks(a, b) ends with the sentinel
\* (len(a), len(b), 0), in the order of the arguments as the caller gave
\* them, and the sentinel is its only block of length 0.
C4_SentinelLast ==
    (BlocksDone /\ ~panicked) =>
        /\ Len(blocks) >= 1
        /\ blocks[Len(blocks)] = <<Len(a), Len(b), 0>>
        /\ \A n \in 1..(Len(blocks) - 1) : blocks[n][3] # 0

\* a list with a block before the sentinel, returned for a longer first
\* argument (the arguments were swapped inside)
C4_Witness ==
    /\ BlocksDone
    /\ ~panicked
    /\ Len(a) > Len(b)
    /\ Len(blocks) >= 2

GmbDone == pc = "done" /\ op = "get_matching_blocks"

\* C5: the blocks returned by get_matching_blocks(a, b) (primitives.rs) do
\* not overlap and ascend: consecutive blocks (i1, j1, k1), (i2, j2, k2)
\* have i1 + k1 <= i2 and j1 + k1 <= j2.
C5_BlocksAscend ==
    (GmbDone /\ ~panicked) =>
        \A n \in 1..(Len(blocks) - 1) :
            /\ blocks[n][1] + blocks[n][3] <= blocks[n + 1][1]
            /\ blocks[n][2] + blocks[n][3] <= blocks[n + 1][2]

\* a list of two blocks and the sentinel
C5_Witness ==
    /\ GmbDone
    /\ ~panicked
    /\ Len(blocks) >= 3

\* the full-length block followed by the sentinel, for equal sequences of length n
FullBlockAndSentinel(n) == << <<0, 0, n>>, <<n, n, 0>> >>

\* C6 as claimed: for equal sequences of any length, length 0 included,
\* get_matching_blocks returns exactly the full-length block (0, 0, len(a))
\* and the sentinel (len(a), len(a), 0).
C6_EqualSequencesTwoEntries ==
    (GmbDone /\ a = b) => (~panicked /\ blocks = FullBlockAndSentinel(Len(a)))

\* C6 as amended: for equal non-empty sequences get_matching_blocks returns
\* exactly the full-length block and the sentinel; for two empty sequences
\* it returns the sentinel (0, 0, 0) alone.
C6_EqualSequencesFullBlock ==
    (GmbDone /\ a = b) =>
        /\ ~panicked
        /\ blocks = IF a = <<>> THEN << <<0, 0, 0>> >> ELSE FullBlockAndSentinel(Len(a))

\* the blocks of two equal sequences of the greatest length
C6_Witness ==
    /\ GmbDone
    /\ a = b
    /\ Len(a) = MaxLen - 1
    /\ Len(blocks) = 2

\* C7: ratio (fuzz::ratio and simple_ratio alike) returns 100 whenever its
\* two inputs are identical, both empty included, and 0 whenever exactly one
\* of them is empty.
C7_RatioTrivialCases ==
    RatioDone =>
        /\ a = b => ~panicked /\ score = 100
        /\ (a = <<>>) # (b = <<>>) => ~panicked /\ score = 0

\* fuzz::ratio has returned 0 for an empty first argument and a non-empty
\* second one
C7_Witness ==
    /\ pc = "done"
    /\ op = "fuzz_ratio"
    /\ a = <<>>
    /\ Len(b) = MaxLen
    /\ ~panicked
    /\ score = 0

\* the integer nearest to num / den, halves up
HalfUp(num, den) == (2 * num + den) \div (2 * den)

\* C8: for inputs that differ and are both non-empty, ratio / simple_ratio
\* returns the integer nearest to 100 * 2 * M / (len(a) + len(b)), halves
\* rounded up, where M is the sum of the lengths of the blocks of
\* get_matching_blocks(a, b).
C8_RatioNearestInteger ==
    (RatioDone /\ a # b /\ a # <<>> /\ b # <<>>) =>
        LET name == IF op = "simple_ratio" THEN "get_matching_blocks"
                                           ELSE "utils_get_matching_blocks"
            r == BlocksOf(name, a, b, build)
        IN  /\ ~panicked
            /\ ~r.panic
            /\ score = HalfUp(200 * SumSizes(r.blocks), Len(a) + Len(b))

\* the largest member of a non-empty set of numbers
MaxOf(S) == CHOOSE m \in S : \A n \in S : n <= m

\* The outcome of scoring the candidates in order: a candidate that fails
\* ends the call, one above 99 ends it with 100, and otherwise the result is
\* the largest candidate (0 when there is none).
Stops(cands) == {n \in 1..Len(cands) : cands[n].panic \/ cands[n].score > 99}

PartialOutcome(cands) ==
    IF Stops(cands) = {}
    THEN Score(MaxOf({cands[n].score : n \in 1..Len(cands)} \cup {0}))
    ELSE IF cands[FirstOf(Stops(cands))].panic \/ cands[FirstOf(Stops(cands))].score > 100
    THEN PanicScore
    ELSE Score(100)

\* longer[max(j - i, 0) .. min(max(j - i, 0) + len(shorter), len(longer))] for
\* block n of bs
Window(shorter, longer, bs, n) ==
    Slice(longer, long_start(bs[n][1], bs[n][2]),
          long_end(bs[n][1], bs[n][2], shorter, longer))

\* simple_ratio(shorter, window) for the first `count` blocks of bs
Candidates(shorter, longer, bs, count, bld) ==
    [n \in 1..count |-> simple_ratio(shorter, Window(shorter, longer, bs, n), bld)]

\* the same for fuzz::partial_ratio: ratio on the window cut at byte offsets
LegacyCandidate(shorter, long_substr) ==
    IF long_substr.panic THEN PanicScore ELSE fuzz_ratio(shorter, long_substr.val)

LegacyCandidates(shorter, longer, bs, count) ==
    [n \in 1..count |->
        LegacyCandidate(shorter,
                        byte_slice(longer, long_start(bs[n][1], bs[n][2]),
                                   long_end(bs[n][1], bs[n][2], shorter, longer)))]

\* a partial ratio has run past check_trivial!
PartialDone(name) == pc = "done" /\ op = name /\ ~check_trivial(a, b).returns

\* C9: partial_ratio(a, b) is the maximum of simple_ratio(shorter, window)
\* over the windows of the non-sentinel blocks of
\* get_matching_blocks(shorter, longer) only (100 as soon as a candidate
\* exceeds 99, 0 without a non-sentinel block); the sentinel's window never
\* changes the result.
C9_PartialRatioNonSentinelWindows ==
    (PartialDone("partial_ratio") /\ ~panicked) =>
        LET shorter == gmb_shorter(a, b)
            longer == gmb_longer(a, b)
            bs == get_matching_blocks(shorter, longer, build).blocks
        IN  score = PartialOutcome(Candidates(shorter, longer, bs, Len(bs) - 1, build)).score

\* C9 as the code has it: past the trivial short-circuit, partial_ratio is
\* the outcome of scoring the windows of all the blocks in order, the
\* sentinel included, and fails where get_matching_blocks or a candidate it
\* evaluates fails; fuzz::partial_ratio does the same with ratio on windows
\* cut at byte offsets.
C9_PartialRatioAllWindows ==
    /\ PartialDone("partial_ratio") =>
        LET shorter == gmb_shorter(a, b)
            longer == gmb_longer(a, b)
            r == get_matching_blocks(shorter, longer, build)
        IN  Returned = IF r.panic
                       THEN PanicScore
                       ELSE PartialOutcome(Candidates(shorter, longer, r.blocks,
                                                      Len(r.blocks), build))
    /\ PartialDone("fuzz_partial_ratio") =>
        LET shorter == gmb_shorter(a, b)
            longer == gmb_longer(a, b)
            r == utils_get_matching_blocks(shorter, longer)
        IN  Returned = IF r.panic
                       THEN PanicScore
                       ELSE PartialOutcome(LegacyCandidates(shorter, longer, r.blocks,
                                                            Len(r.blocks)))

\* partial_ratio has returned a score that only the sentinel's window gives
C9_Witness ==
    /\ PartialDone("partial_ratio")
    /\ ~panicked
    /\ LET shorter == gmb_shorter(a, b)
           longer == gmb_longer(a, b)
           bs == get_matching_blocks(shorter, longer, build).blocks
       IN  /\ Len(bs) > 1
           /\ score > PartialOutcome(Candidates(shorter, longer, bs, Len(bs) - 1, build)).score

\* C10: partial_token_sort_ratio, through partial_ratio_full, applies the
\* trivial short-circuit to the compared sequences: 0 whenever exactly one
\* input is empty after normalization and segmentation, 100 whenever the two
\* normalized sequences are identical.
C10_ShortCircuitAfterNormalization ==
    (pc = "done" /\ op = "partial_token_sort_ratio") =>
        LET normalizer == token_sort_normalizer(flags[1], flags[2])
            segmented_a == CodePointSegmenter(ComposedNormalizer(normalizer, a))
            segmented_b == CodePointSegmenter(ComposedNormalizer(normalizer, b))
        IN  /\ (segmented_a = <<>>) # (segmented_b = <<>>) => ~panicked /\ score = 0
            /\ segmented_a = segmented_b => ~panicked /\ score = 100

\* x occurs in y as a run of consecutive elements
Occurs(x, y) == \E i \in 0..(Len(y) - Len(x)) : Slice(y, i, i + Len(x)) = x

\* C11: whenever the shorter input (taken non-empty) occurs as a contiguous
\* substring of the longer one, partial_ratio returns 100, in either
\* argument order; fuzz::partial_ratio as fuzzywuzzy_compatible's.
C11_SubstringScores100 ==
    (/\ pc = "done"
     /\ op \in {"partial_ratio", "fuzz_partial_ratio"}
     /\ gmb_shorter(a, b) # <<>>
     /\ Occurs(gmb_shorter(a, b), gmb_longer(a, b))) =>
        ~panicked /\ score = 100

\* C12: partial_ratio depends on the order of equal-length arguments:
\* partial_ratio("what about supercalifragilisticexpialidocious",
\* "supercalifragilisticexpialidocious about what") is 76 and the same call
\* with the arguments reversed is 86.
C12_PartialRatioOrderDependent ==
    (pc = "done" /\ op = "partial_ratio") =>
        /\ (a = Doc_what_about /\ b = Doc_about_what) => ~panicked /\ score = 76
        /\ (a = Doc_about_what /\ b = Doc_what_about) => ~panicked /\ score = 86

\* the reversed call has returned 86
C12_Witness ==
    /\ pc = "done"
    /\ op = "partial_ratio"
    /\ a = Doc_about_what
    /\ b = Doc_what_about
    /\ Len(a) = Len(b)
    /\ score = 86

\* the orders of the whitespace-separated tokens of s, joined by one space
TokenOrders(s) ==
    LET tokens == split_whitespace(s)
        orders == {p \in [1..Len(tokens) -> 1..Len(tokens)] :
                      \A i, j \in 1..Len(tokens) : p[i] = p[j] => i = j}
    IN  {join([i \in 1..Len(tokens) |-> tokens[p[i]]], <<Space>>) : p \in orders}

\* the token-sort ratio `name` on (x, y)
TokenSortOf(name, x, y, fl, bld) ==
    IF name = "token_sort_ratio"
    THEN token_sort_ratio(x, y, fl[1], fl[2], bld)
    ELSE fuzz_token_sort_ratio(x, y, fl[1], fl[2])

TokenSortDone == pc = "done" /\ op \in {"token_sort_ratio", "fuzz_token_sort_ratio"}

\* C13 as claimed: token_sort_ratio splits on whitespace and sorts the tokens
\* for both values of full_process, so its result does not change when the
\* tokens of a, or of b, are put in another order (both token_sort_ratio
\* functions, texts whose tokens are separated by single spaces).
C13_TokenSortOrderInvariant ==
    (TokenSortDone /\ a \in TokenOrders(a) /\ b \in TokenOrders(b)) =>
        /\ \A x \in TokenOrders(a) : TokenSortOf(op, x, b, flags, build) = Returned
        /\ \A y \in TokenOrders(b) : TokenSortOf(op, a, y, flags, build) = Returned

\* the scorer that the token-set ratio `name` applies to its three strings
PairScoreOf(name, x, y, bld) ==
    CASE name = "token_set_ratio" -> ratio(x, y, bld)
      [] name = "partial_token_set_ratio" -> partial_ratio(x, y, bld)
      [] name = "fuzz_token_set_ratio" -> fuzz_ratio(x, y)
      [] name = "fuzz_partial_token_set_ratio" -> fuzz_partial_ratio(x, y)

\* the tokens of s as the token-set ratio `name` sees them under the flags
TokensOf(name, s, fl) ==
    token_hash_set(IF ~fl[2] THEN s
                   ELSE IF name \in {"token_set_ratio", "partial_token_set_ratio"}
                   THEN compat_full_process(s, fl[1])
                   ELSE utils_full_process(s, fl[1]))

\* a set of tokens, sorted and joined by single spaces
SortedJoined(tokens) == join(sorted_tokens(tokens), <<Space>>)

\* `first` followed, after one space, by `rest` when there is a rest
Followed(first, rest) == IF rest = <<>> THEN first ELSE first \o <<Space>> \o rest

\* the maximum of the three pairwise scores of I, C1 and C2; a scorer that
\* fails makes the whole call fail
MaxOfPairs(name, I, C1, C2, bld) ==
    LET pairs == {PairScoreOf(name, I, C1, bld), PairScoreOf(name, I, C2, bld),
                  PairScoreOf(name, C1, C2, bld)}
    IN  IF \E r \in pairs : r.panic
        THEN PanicScore
        ELSE Score(MaxOf({r.score : r \in pairs}))

ClaimedTokenSet(name, t1, t2, bld) ==
    MaxOfPairs(name, SortedJoined(t1 \cap t2),
               Followed(SortedJoined(t1 \cap t2), SortedJoined(t1 \ t2)),
               Followed(SortedJoined(t1 \cap t2), SortedJoined(t2 \ t1)), bld)

TokenSetDone ==
    /\ pc = "done"
    /\ op \in {"token_set_ratio", "partial_token_set_ratio",
               "fuzz_token_set_ratio", "fuzz_partial_token_set_ratio"}

\* C14 as claimed: for all inputs a and b, an empty or whitespace-only one
\* included, token_set_ratio is the maximum of ratio(I, C1), ratio(I, C2)
\* and ratio(C1, C2), and partial_token_set_ratio the same with partial_ratio.
C14_TokenSetMaxOfPairs ==
    TokenSetDone =>
        Returned = ClaimedTokenSet(op, TokensOf(op, a, flags), TokensOf(op, b, flags), build)

\* C14 amended: when exactly one of a and b is the empty string the token-set
\* ratios return 0; for all other inputs they return the maximum of the
\* three pairwise scores of I, C1 and C2.
C14_TokenSetMaxOfPairsUnlessOneEmpty ==
    TokenSetDone =>
        Returned = IF (a = <<>>) # (b = <<>>)
                   THEN Score(0)
                   ELSE ClaimedTokenSet(op, TokensOf(op, a, flags),
                                        TokensOf(op, b, flags), build)

\* a token-set ratio of two texts that share a token and have each a token of
\* their own, below 100
C14_Witness ==
    /\ TokenSetDone
    /\ op = "token_set_ratio"
    /\ ~panicked
    /\ score < 100
    /\ TokensOf(op, a, flags) \cap TokensOf(op, b, flags) # {}
    /\ TokensOf(op, a, flags) \ TokensOf(op, b, flags) # {}
    /\ TokensOf(op, b, flags) \ TokensOf(op, a, flags) # {}

\* the arguments of a wratio call after its optional full_process
Normalized(name, s, fl) ==
    IF ~fl[2] THEN s
    ELSE IF name = "wratio" THEN compat_full_process(s, fl[1])
    ELSE utils_full_process(s, fl[1])

WratioDone == pc = "done" /\ op \in {"wratio", "fuzz_wratio"}

\* C15 as claimed: wratio returns 0 whenever either input is empty after
\* normalization, also when both are (both wratio functions).
C15_WratioZeroWhenNormalizedEmpty ==
    (WratioDone /\ (Normalized(op, a, flags) = <<>> \/ Normalized(op, b, flags) = <<>>)) =>
        (~panicked /\ score = 0)

\* the tokens of s split on white space, sorted and joined by single spaces
TokenSorted(s) == join(SortSeq(split_whitespace(s), StrLess), <<Space>>)

\* the whole-sequence ratio and the partial ratio that the wratio function
\* `name` builds on
WholeRatioOf(name, x, y, bld) ==
    IF name = "wratio" THEN ratio(x, y, bld) ELSE fuzz_ratio(x, y)

PartialRatioOf(name, x, y, bld) ==
    IF name = "wratio" THEN partial_ratio(x, y, bld) ELSE fuzz_partial_ratio(x, y)

\* the token-set ratios of the same crate
TokenSetNameOf(name, partial) ==
    IF name = "wratio"
    THEN (IF partial THEN "partial_token_set_ratio" ELSE "token_set_ratio")
    ELSE (IF partial THEN "fuzz_partial_token_set_ratio" ELSE "fuzz_token_set_ratio")

\* round(max(..)) of scores weighted in ten-thousandths; a component that
\* fails makes the whole call fail
RoundedMax(weighted) ==
    IF \E w \in weighted : w[1].panic
    THEN PanicScore
    ELSE Score((MaxOf({w[1].score * w[2] : w \in weighted}) + 5000) \div 10000)

\* the blend of C16 on the normalized strings x and y, of lengths L >= S > 0
ClaimedWratio(name, x, y, L, S, bld) ==
    IF 2 * L < 3 * S
    THEN RoundedMax({
            <<WholeRatioOf(name, x, y, bld), 10000>>,
            <<WholeRatioOf(name, TokenSorted(x), TokenSorted(y), bld), 9500>>,
            <<ClaimedTokenSet(TokenSetNameOf(name, FALSE), token_hash_set(x),
                              token_hash_set(y), bld), 9500>>})
    ELSE RoundedMax({
            <<WholeRatioOf(name, x, y, bld), 10000>>,
            <<PartialRatioOf(name, x, y, bld), IF L > 8 * S THEN 6000 ELSE 9000>>,
            <<PartialRatioOf(name, TokenSorted(x), TokenSorted(y), bld),
              IF L > 8 * S THEN 5700 ELSE 8550>>,
            <<ClaimedTokenSet(TokenSetNameOf(name, TRUE), token_hash_set(x),
                              token_hash_set(y), bld),
              IF L > 8 * S THEN 5700 ELSE 8550>>})

ClaimedWratioOf(name, x, y, bld) ==
    ClaimedWratio(name, x, y, Max(Len(x), Len(y)), Min(Len(x), Len(y)), bld)

BothNormalizedNonEmpty ==
    Normalized(op, a, flags) # <<>> /\ Normalized(op, b, flags) # <<>>

\* C16 as claimed: with L and S the lengths of the longer and the shorter
\* normalized string, wratio is round(max(base, 0.95 token_sort_ratio,
\* 0.95 token_set_ratio)) when L / S < 1.5, and otherwise, with w = 0.6 when
\* L / S > 8.0 and w = 0.9 when not, round(max(base, w partial_ratio,
\* 0.95 w partial_token_sort_ratio, 0.95 w partial_token_set_ratio)), all on
\* the normalized strings (both wratio functions, neither normalized string
\* empty).
C16_WratioStrategy ==
    (WratioDone /\ BothNormalizedNonEmpty) =>
        Returned = ClaimedWratioOf(op, Normalized(op, a, flags), Normalized(op, b, flags), build)

\* the base ratio of a finished wratio call: the ratio of its normalized
\* arguments
BaseRatio == WholeRatioOf(op, Normalized(op, a, flags), Normalized(op, b, flags), build)

\* the normalized arguments differ in length by a factor of 1.5 or more
LengthsFarApart ==
    LET L == Max(Len(Normalized(op, a, flags)), Len(Normalized(op, b, flags)))
        S == Min(Len(Normalized(op, a, flags)), Len(Normalized(op, b, flags)))
    IN  L > S /\ 2 * L >= 3 * S

\* C17: only full results return 100 from wratio: a result of 100 means that
\* a = b or that the base ratio of the normalized strings is 100, and when
\* the normalized lengths differ by a factor of 1.5 or more the result is at
\* most 90 (both wratio functions, all flags, both builds).
C17_WratioOnlyFullResults100 ==
    (WratioDone /\ ~panicked) =>
        /\ score = 100 => (a = b \/ BaseRatio = Score(100))
        /\ LengthsFarApart => score <= 90

\* a 100 for two different arguments whose normalized strings are equal
C17_Witness ==
    /\ WratioDone
    /\ op = "wratio"
    /\ score = 100
    /\ a # b
    /\ Normalized(op, a, flags) # <<>>
    /\ BaseRatio = Score(100)

\* a 90 for arguments far apart in length
C17_WitnessFarApart ==
    WratioDone /\ op = "wratio" /\ ~panicked /\ LengthsFarApart /\ score = 90

\* C18: wratio(s, s, true, true) = 100 for every non-empty s, also for an s
\* that normalizes to the empty string (both wratio functions).
C18_WratioIdentity ==
    (WratioDone /\ a = b /\ a # <<>> /\ flags = <<TRUE, TRUE>>) =>
        (~panicked /\ score = 100)

\* wratio(s, s, true, true) for an s of punctuation only
C18_Witness ==
    /\ WratioDone
    /\ a = b
    /\ a = Text_bang
    /\ flags = <<TRUE, TRUE>>
    /\ Normalized(op, a, flags) = <<>>
    /\ score = 100

ScoreDone == pc = "done" /\ op \in {"Score::new", "Score::try_from"}

\* C19: Score::new(x) and Score::try_from(x) succeed exactly when x <= 100,
\* the Score they give reports score() = x, and a greater x is rejected
\* (None, Err) and never clamped into a Score.
C19_ScoreInRange ==
    ScoreDone =>
        /\ output.ok <=> input <= 100
        /\ output.ok => Score_score(output) = input /\ Score_score(output) \in 0..100
        /\ input > 100 => DOMAIN output \cap {"score"} = {}

\* an out-of-range value rejected by Score::new
C19_Witness ==
    ScoreDone /\ op = "Score::new" /\ input = 101 /\ ~output.ok

ExtractDone == pc = "done" /\ op = "extract" /\ ~panicked

\* the scores of a list of matches do not increase
NonIncreasing(matches) ==
    \A i, j \in 1..Len(matches) : i < j => matches[i].score >= matches[j].score

\* what extract returns for the same arguments with limit = None
Unlimited ==
    reverse(sort(extract_without_order(a, input.choices, input.processor, input.scorer,
                                       input.score_cutoff).results))

\* C20 as claimed: extract returns the best matches first: the matches are
\* in non-increasing score order, and with limit = Some(n) they are the n
\* highest-scoring matches among the choices that reach score_cutoff, the
\* scores of the result with limit = None truncated to n.
C20_ExtractBestFirst ==
    ExtractDone =>
        /\ NonIncreasing(output)
        /\ input.limit # <<>> =>
              /\ Len(output) = Min(input.limit[1], Len(Unlimited))
              /\ \A i \in 1..Len(output) : output[i].score = Unlimited[i].score

ExtractOneDone == pc = "done" /\ op = "extract_one" /\ ~panicked

\* the score of each choice against the query, in the order of the choices
ChoiceScores ==
    [n \in 1..Len(input.choices) |->
        apply_scorer(input.scorer, apply_processor(input.processor, a),
                     apply_processor(input.processor, input.choices[n])).score]

\* the positions of the choices that reach score_cutoff
Reaching == {n \in 1..Len(input.choices) : ChoiceScores[n] >= input.score_cutoff}

\* those of them with the maximum score
Best == {n \in Reaching : \A k \in Reaching : ChoiceScores[k] <= ChoiceScores[n]}

\* C21: extract_one returns None when no choice reaches score_cutoff, and
\* otherwise the choice with the maximum score together with that score; of
\* several choices with the maximum score it returns the one that comes
\* first in `choices`.
C21_ExtractOneFirstBest ==
    ExtractOneDone =>
        IF Reaching = {}
        THEN output = <<>>
        ELSE output = <<Match_new(input.choices[FirstOf(Best)], ChoiceScores[FirstOf(Best)])>>

\* "A" and "a" tie at 100 against the query "a", a third choice scores
\* less, and the first of the two is returned
C21_Witness ==
    /\ ExtractOneDone
    /\ input.choices = <<<<98>>, <<65>>, <<97>>>>
    /\ Best = {2, 3}
    /\ output = <<Match_new(<<65>>, 100)>>

\* no choice reaches the cutoff and None is returned
C21_WitnessNone ==
    ExtractOneDone /\ input.choices # <<>> /\ Reaching = {} /\ output = <<>>

DedupeDone == pc = "done" /\ op = "dedupe"

\* the score of item k against item n, as dedupe has extract compute it
ItemScore(n, k) ==
    apply_scorer(input.scorer, utils_full_process(input.contains_dupes[n], FALSE),
                 utils_full_process(input.contains_dupes[k], FALSE)).score

\* the items whose score against item n is greater than the threshold
Duplicates(n) ==
    SelectSeq([k \in 1..Len(input.contains_dupes) |->
                  Match_new(input.contains_dupes[k], ItemScore(n, k))],
              LAMBDA m : m.score > input.threshold)

\* a stable sort by descending length of the text
sort_by_len_descending(matches) ==
    [i \in 1..Len(matches) |->
        matches[CHOOSE n \in 1..Len(matches) :
                   Cardinality({k \in 1..Len(matches) :
                                   \/ text_len(matches[k]) > text_len(matches[n])
                                   \/ text_len(matches[k]) = text_len(matches[n]) /\ k < n}) = i - 1]]

\* the longest of them, the alphabetically first of several longest
Longest(n) == sort_by_len_descending(sort_by_text(Duplicates(n)))[1].text

\* the elements of a list
Elements(list) == {list[n] : n \in 1..Len(list)}

\* C22 as claimed: dedupe never fails for a threshold in [0, 100], and it
\* replaces every item by the longest string among the items whose score
\* against it is greater than the threshold, length ties broken
\* alphabetically: it returns these strings, each once (the input list itself
\* when they are as many as the items).
C22_DedupeLongest ==
    DedupeDone =>
        /\ ~panicked
        /\ \A n \in 1..Len(input.contains_dupes) : Duplicates(n) # <<>>
        /\ LET canonical == {Longest(n) : n \in 1..Len(input.contains_dupes)}
           IN  IF Cardinality(canonical) = Len(input.contains_dupes)
               THEN output = input.contains_dupes
               ELSE Elements(output) = canonical /\ Len(output) = Cardinality(canonical)

\* C23 as claimed: dedupe is deterministic in content and order: the list
\* it returns is the only one it can return for its arguments, whatever the
\* iteration order of the hash set.
C23_DedupeDeterministic ==
    DedupeDone /\ ~panicked =>
        \A result \in dedupe(input.contains_dupes, input.threshold, input.scorer,
                             input.score_cutoff, input.limit).results :
            result = output

DedupeFullDone == pc = "done" /\ op = "dedupe_full"

\* the canonical representative of each item that has one, in the order of
\* the items
Representatives == dedupe_full_extractor(input.items, input.threshold, Len(input.items))

\* the positions at which a representative appears for the first time
FirstAppearances ==
    {n \in 1..Len(Representatives) :
        \A k \in 1..(n - 1) : Representatives[k] # Representatives[n]}

\* the distinct representatives in the order of their first appearance
InOrderOfFirstAppearance ==
    [i \in 1..Cardinality(FirstAppearances) |->
        Representatives[CHOOSE n \in FirstAppearances :
                           Cardinality({k \in FirstAppearances : k < n}) = i - 1]]

\* C24 as claimed: with stable = true dedupe_full returns each distinct
\* canonical representative exactly once, in the order of first appearance
\* of the representatives, whatever order the unstable sort gives to equal
\* representatives.
C24_DedupeFullStableOrder ==
    DedupeFullDone /\ input.stable => output = InOrderOfFirstAppearance

NormalizerDone ==
    /\ pc = "done"
    /\ op \in {"SplittingAlphanumericNormalizer",
               "replace_non_letters_non_numbers_with_whitespace", "full_process"}

\* a character that is not a letter, a number or the underscore
IsSeparator(c) == ~(c = 95 \/ is_alphanumeric(c))

\* s with every maximal run of separators replaced by a single space
RECURSIVE RunsReplaced(_, _)
RunsReplaced(s, n) ==
    IF n = 0 THEN <<>>
    ELSE IF ~IsSeparator(s[n]) THEN Append(RunsReplaced(s, n - 1), s[n])
    ELSE IF n > 1 /\ IsSeparator(s[n - 1]) THEN RunsReplaced(s, n - 1)
    ELSE Append(RunsReplaced(s, n - 1), Space)

\* s with every separator replaced by a space of its own
EachReplaced(s) == [n \in 1..Len(s) |-> IF IsSeparator(s[n]) THEN Space ELSE s[n]]

\* what full_process makes of the string the normalization step returns
Processed(s) == trim(LowerCaseNormalizer(s))

\* the string the normalization step of the call is applied to
Normalizee == IF op = "full_process" /\ input.force_ascii THEN asciionly(a) ELSE a

FlmCalled == op = "get_matching_blocks" /\ call # NoCall

\* the ranges of the last call lie in the sequences
RangesInBounds ==
    /\ call[1] <= call[2] /\ call[2] <= Len(gmb_shorter(a, b))
    /\ call[3] <= call[4] /\ call[4] <= Len(gmb_longer(a, b))

\* the streak returned lies in the sequences
StreakInBounds ==
    ~streak.panic =>
        streak.idx1 <= Len(gmb_shorter(a, b)) /\ streak.idx2 <= Len(gmb_longer(a, b))

\* C26 as claimed: in every call of find_longest_match made by
\* get_matching_blocks the asserted preconditions hold, low1 <= high1 <=
\* len(shorter), low2 <= high2 <= len(longer) and high1 - low1 <= high2 -
\* low2, and the returned streak has idx1 <= len(shorter) and idx2 <=
\* len(longer).
C26_FindLongestMatchPreconditions ==
    FlmCalled =>
        /\ RangesInBounds
        /\ call[2] - call[1] <= call[4] - call[3]
        /\ StreakInBounds

\* a loop of get_matching_blocks is running
InLoop == pc \in {"gmb_loop", "utils_gmb_loop"}

\* the sub-ranges pushed by the iteration that takes the step
Pushed == SubSeq(queue', Len(queue), Len(queue'))

\* `sub` is non-empty in both dimensions
NonEmptyRange(sub) == sub[1] < sub[2] /\ sub[3] < sub[4]

\* `sub` lies strictly before or strictly after the match m
ApartFrom(sub, m) ==
    \/ sub[2] <= m.idx1 /\ sub[4] <= m.idx2
    \/ m.idx1 + m.size <= sub[1] /\ m.idx2 + m.size <= sub[3]

\* `sub` lies in `range` and is strictly smaller
StrictlyInside(sub, range) ==
    /\ range[1] <= sub[1] /\ sub[2] <= range[2]
    /\ range[3] <= sub[3] /\ sub[4] <= range[4]
    /\ (sub[2] - sub[1]) + (sub[4] - sub[3]) < (range[2] - range[1]) + (range[4] - range[3])

\* an iteration pushes only such sub-ranges of the range it popped
PushesSmallerRanges ==
    InLoop /\ queue # <<>> =>
        \A n \in 1..Len(Pushed) :
            /\ NonEmptyRange(Pushed[n])
            /\ ApartFrom(Pushed[n], streak')
            /\ StrictlyInside(Pushed[n], queue[Len(queue)])

\* the work left in a queue: every range counts for twice its width in
\* `shorter` plus one
RECURSIVE WorkLeft(_)
WorkLeft(q) ==
    IF q = <<>> THEN 0 ELSE 2 * (Head(q)[2] - Head(q)[1]) + 1 + WorkLeft(Tail(q))

\* every iteration leaves less work in the queue, so the queue runs out
QueueShrinks == InLoop /\ queue # <<>> => WorkLeft(queue') < WorkLeft(queue)

\* C27 as claimed: get_matching_blocks terminates: every sub-range pushed
\* on the work queue is non-empty in both dimensions, lies strictly before
\* or strictly after the match found in the range it was split from and is
\* strictly smaller than that range, so that every iteration leaves less
\* work in the queue and the queue is eventually exhausted.
C27_GetMatchingBlocksTerminates == [][PushesSmallerRanges /\ QueueShrinks]_vars

\* primitives::get_matching_blocks has returned
GmbReturned == pc = "done" /\ op = "get_matching_blocks" /\ ~panicked

\* (i, j, k) is a run of k >= 1 equal elements of x from i and of y from j,
\* the positions counted from 0
GenuineMatch(x, y, block) ==
    /\ block[3] >= 1
    /\ block[1] + block[3] <= Len(x)
    /\ block[2] + block[3] <= Len(y)
    /\ \A t \in 0..(block[3] - 1) : x[block[1] + t + 1] = y[block[2] + t + 1]

\* C28: every non-sentinel block (i, j, k) returned by
\* get_matching_blocks(a, b) is a genuine match in the caller's argument
\* order, also when the arguments were swapped internally: k >= 1,
\* i + k <= len(a), j + k <= len(b) and a[i + t] = b[j + t] for 0 <= t < k.
C28_BlocksAreMatches ==
    GmbReturned => \A n \in 1..(Len(blocks) - 1) : GenuineMatch(a, b, blocks[n])

\* the arguments were swapped and a block at different positions in the two
\* sequences is returned
C28_Witness ==
    /\ GmbReturned
    /\ gmb_flipped(a, b)
    /\ \E n \in 1..(Len(blocks) - 1) : blocks[n][1] # blocks[n][2]

\* either get_matching_blocks has returned
BlocksReturned ==
    /\ pc = "done"
    /\ op \in {"get_matching_blocks", "utils_get_matching_blocks"}
    /\ ~panicked

\* the second block continues the first in both sequences
Contiguous(first, second) ==
    first[1] + first[3] = second[1] /\ first[2] + first[3] = second[2]

\* C29: after the merge step no two consecutive blocks of a
\* get_matching_blocks result are contiguous in both sequences: there are no
\* consecutive blocks (i1, j1, k1), (i2, j2, k2) with k2 > 0, i1 + k1 = i2 and
\* j1 + k1 = j2.
C29_NoContiguousBlocks ==
    BlocksReturned =>
        \A n \in 1..(Len(blocks) - 1) :
            blocks[n + 1][3] > 0 => ~Contiguous(blocks[n], blocks[n + 1])

\* the merge step has joined two blocks found by the loop into one
C29_Witness ==
    /\ BlocksReturned
    /\ Len(matching_blocks) = 2
    /\ Contiguous(matching_blocks[1], matching_blocks[2])
    /\ Len(blocks) = 2
    /\ blocks[1][3] = matching_blocks[1][3] + matching_blocks[2][3]

\* two blocks that are not contiguous are returned by the function of
\* primitives.rs
C29_WitnessApart ==
    /\ BlocksReturned
    /\ op = "get_matching_blocks"
    /\ Len(blocks) = 3

\* a partial ratio has ended, by a return or by a panic
PartialRatioDone == pc = "done" /\ op \in {"partial_ratio", "fuzz_partial_ratio"}

\* the outcome of the same call with the arguments exchanged
Exchanged ==
    IF op = "partial_ratio" THEN partial_ratio(b, a, build) ELSE fuzz_partial_ratio(b, a)

\* C30: for inputs of different lengths partial_ratio does not depend on
\* the argument order: partial_ratio(a, b) = partial_ratio(b, a) whenever
\* len(a) # len(b), the same score or the same failure.
C30_PartialRatioOrderFree ==
    PartialRatioDone /\ Len(a) # Len(b) =>
        /\ Exchanged.panic = panicked
        /\ ~panicked => Exchanged.score = score

\* the longer argument comes first and the score is neither of the trivial
\* ones
C30_Witness ==
    /\ PartialRatioDone
    /\ op = "partial_ratio"
    /\ Len(a) > Len(b)
    /\ ~panicked
    /\ score \in 1..99

====
